---- MODULE Spec2Model ----
(***************************************************************************)
(* Glimps: memory ingestion, event formation and context inference.        *)
(*                                                                         *)
(* Units: capture times are minutes, confidences are hundredths (70 =      *)
(* 0.7). An event row carries, for updated_at, the whole hours elapsed     *)
(* since then, counted up to 1: the code only asks whether less than one   *)
(* hour has passed. Coordinates are metres measured                        *)
(* along one meridian (latitude) and along the equator (longitude), so the *)
(* great-circle distance of two points on the same meridian is the         *)
(* difference of their latitudes.                                          *)
(***************************************************************************)
EXTENDS Integers, Sequences, FiniteSets, TLC

\* The null of an optional numeric column (no modelled number is negative), and
\* the null (or undefined) of an optional text.
NULL == -1
NULLTEXT == "null"

\* Memory ids are opaque; they are handed out in increasing order.
MemoryIds == {1, 2, 3}
UserIds == {"u1", "u2"}

\* The memories that go through ingestion and context inference (one owner).
PipelineIds == {1, 2}

\* Bounds of the model.
MaxRuns == 2     \* formation runs started, over all memories

\* Program constants.
DEFAULT_TIME_WINDOW_MINUTES == 90
DEFAULT_DISTANCE_THRESHOLD_METERS == 150
RECENT_LIMIT == 100
SIMILAR_MEMORIES_LIMIT == 15
MIN_OCCURRENCES_FOR_PLACE == 1

VARIABLES
  \* ---- store: memories, events, links, event embeddings ----
  memories,         \* memory id -> row (with its context columns), uploaded ids only
  events,           \* event id -> row
  links,            \* set of memory_event_links rows, key (memoryId, eventId)
  eventEmbeddings,  \* event id -> embedded text
  \* ---- one event-formation run per memory at a time ----
  fpc,              \* position of the run of processMemory(memoryId)
  nearby,           \* nearbyMemories of the run (sequence of memory ids)
  existingEvent,    \* existingEvents[0] as read by the run (row), NoEvent if none
  existingLinks,    \* existingLinks.length as read inside the attach transaction
  runs,             \* number of runs started so far
  lastResult,       \* the run that finished last: its memory, its outcome, and
                    \* whether the store is unchanged since it finished
  \* ---- store: processing status, memory embeddings, memory context ----
  processingStatus, \* memory id -> processing_status ("absent": no row yet)
  memoryEmbeddings, \* the memory ids that have a memory_embeddings row
  memoryContext,    \* memory id -> memory_context row, memories with a row only
  memoryTags,       \* the memory_tags rows, in insertion order
  memoryPeople,     \* the memory_people rows, in insertion order
  \* ---- one ingestion call per memory at a time, and its background work ----
  ppc,              \* position of the call of MemoryPipeline.processMemory
  metadata,         \* the metadata the call was given
  entry,            \* how the latest call for the memory came in
  raised,           \* the ProcessingError the latest call raised ("none": none)
  returned,         \* the memory ids for which processMemory returned its result
  background,       \* the fire-and-forget promises started for the memory
  \* ---- one call of a function of the core ----
  callInput,        \* the arguments of the call
  callOutput,       \* what the call has returned so far (NoOutput: not called yet)
  callFrame         \* the local variables of a call that takes several steps

formVars == <<memories, events, links, eventEmbeddings, fpc, nearby,
              existingEvent, existingLinks, runs, lastResult>>

pipeVars == <<processingStatus, memoryEmbeddings, memoryContext, memoryTags, memoryPeople, ppc, metadata,
              entry, raised, returned, background>>

callVars == <<callInput, callOutput, callFrame>>

vars == <<memories, events, links, eventEmbeddings, fpc, nearby,
          existingEvent, existingLinks, runs, lastResult,
          processingStatus, memoryEmbeddings, memoryContext, memoryTags, memoryPeople, ppc, metadata,
          entry, raised, returned, background, callInput, callOutput, callFrame>>

NoInput == [fn |-> "none"]
NoOutput == [fn |-> "none"]
NoFrame == [fn |-> "none"]

----------------------------------------------------------------------------
\* Helpers

Abs(x) == IF x < 0 THEN -x ELSE x

MinOf(S) == CHOOSE x \in S : \A y \in S : x <= y
MaxOf(S) == CHOOSE x \in S : \A y \in S : x >= y

Range(s) == {s[i] : i \in 1..Len(s)}

\* JavaScript truthiness of an optional number: null/undefined and 0 are falsy.
Truthy(x) == x # NULL /\ x # 0

\* All orderings of the rows S that ORDER BY key DESC may return (key: row -> number).
OrderedDesc(S, key) ==
  {s \in [1..Cardinality(S) -> S] :
     /\ \A i, j \in 1..Cardinality(S) : i # j => s[i] # s[j]
     /\ \A i, j \in 1..Cardinality(S) : i < j => key[s[i]] >= key[s[j]]}

Take(s, n) == IF Len(s) <= n THEN s ELSE SubSeq(s, 1, n)

----------------------------------------------------------------------------
\* Clustering engine

ISqrt(n) == CHOOSE r \in 0..n : r * r <= n /\ (r + 1) * (r + 1) > n

calculateDistance(lat1, lon1, lat2, lon2) ==
  IF lon1 = lon2 THEN Abs(lat2 - lat1)
  ELSE ISqrt((lat2 - lat1) * (lat2 - lat1) + (lon2 - lon1) * (lon2 - lon1))

\* allMemories: a sequence of memory ids whose rows are in mem.
findNearbyMemories(mem, targetId, allMemories) ==
  LET target == mem[targetId]
      Keep(id) ==
        LET memory == mem[id] IN
        /\ id # targetId
        /\ Abs(memory.capturedAt - target.capturedAt) <= DEFAULT_TIME_WINDOW_MINUTES
        /\ (Truthy(target.latitude) /\ Truthy(target.longitude)
              /\ Truthy(memory.latitude) /\ Truthy(memory.longitude))
           => calculateDistance(target.latitude, target.longitude,
                                memory.latitude, memory.longitude)
                <= DEFAULT_DISTANCE_THRESHOLD_METERS
  IN SelectSeq(allMemories, Keep)

analyzeCluster(mem, ids) ==
  IF Len(ids) = 0 THEN [isTightCluster |-> FALSE, clusterConfidence |-> 0]
  ELSE IF Len(ids) = 1 THEN [isTightCluster |-> TRUE, clusterConfidence |-> 70]
  ELSE
    LET times == {mem[ids[i]].capturedAt : i \in 1..Len(ids)}
        timeSpanMinutes == MaxOf(times) - MinOf(times)
        withLocation == SelectSeq(ids, LAMBDA id :
                          Truthy(mem[id].latitude) /\ Truthy(mem[id].longitude))
        dists == {calculateDistance(mem[withLocation[i]].latitude,
                                    mem[withLocation[i]].longitude,
                                    mem[withLocation[j]].latitude,
                                    mem[withLocation[j]].longitude) :
                    i, j \in 1..Len(withLocation)}
        maxDistance == IF Len(withLocation) >= 2 THEN MaxOf(dists) ELSE 0
        c0 == 50
        c1 == c0 + (IF Len(ids) >= 3 THEN 20 ELSE 0)
        c2 == c1 + (IF Len(ids) >= 5 THEN 10 ELSE 0)
        c3 == c2 + (IF timeSpanMinutes <= 30 THEN 20
                    ELSE IF timeSpanMinutes <= 60 THEN 10 ELSE 0)
        c4 == c3 + (IF Len(withLocation) >= 2
                    THEN (IF maxDistance <= 50 THEN 20
                          ELSE IF maxDistance <= 100 THEN 10 ELSE 0)
                    ELSE 0)
        confidence == IF c4 < 100 THEN c4 ELSE 100
    IN [isTightCluster |-> confidence >= 70, clusterConfidence |-> confidence]


----------------------------------------------------------------------------
\* Synthesis adapter

\* What the text-generation call yields for one synthesis: failed when every
\* retry attempt fails, else the confidence it reports (NULL: not parseable).
LLMOutcomes == {[failed |-> TRUE, reported |-> NULL],
                [failed |-> FALSE, reported |-> 100]}

parseResponse(reported) ==
  LET confidenceScore == IF reported # NULL THEN reported ELSE 50
  IN IF confidenceScore < 0 THEN 0
     ELSE IF confidenceScore > 100 THEN 100 ELSE confidenceScore

\* The title stands for the title's text: who wrote it and over how many
\* memories.  The summary of the fallback is its words; raised tells whether the
\* call throws instead of returning.
FallbackSummary(n) ==
  <<n, IF n = 1 THEN "memory" ELSE "memories", "from this time period.">>

\* The catch block rethrows instead of building the fallback.
synthesizeEventRethrows(ids, llm) ==
  IF Len(ids) = 0 \/ llm.failed
  THEN [raised |-> TRUE, title |-> <<>>, summary |-> <<>>, confidenceScore |-> NULL]
  ELSE [raised |-> FALSE, title |-> <<"llm", Len(ids)>>, summary |-> <<"llm">>,
        confidenceScore |-> parseResponse(llm.reported)]

synthesizeEvent(ids, llm) ==
  IF Len(ids) = 0
  THEN [raised |-> TRUE, title |-> <<>>, summary |-> <<>>, confidenceScore |-> NULL]
  ELSE IF llm.failed
  THEN [raised |-> FALSE, title |-> <<"fallback", Len(ids)>>,
        summary |-> FallbackSummary(Len(ids)), confidenceScore |-> 30]
  ELSE [raised |-> FALSE, title |-> <<"llm", Len(ids)>>, summary |-> <<"llm">>,
        confidenceScore |-> parseResponse(llm.reported)]

\* The rate limit is left out.
shouldUpdateEventNoRateLimit(existingMemoryCount, newMemoryCount, minutesSinceUpdate) ==
  IF existingMemoryCount >= 5 /\ newMemoryCount <= 2 THEN FALSE
  ELSE IF existingMemoryCount = 0 THEN newMemoryCount > 0
  ELSE 5 * newMemoryCount > existingMemoryCount

\* The time since the last update is in minutes; hoursSinceUpdate < 1 is
\* minutesSinceUpdate < 60. For existingMemoryCount = 0 the ratio is Infinity
\* (or NaN for 0 / 0).
shouldUpdateEvent(existingMemoryCount, newMemoryCount, minutesSinceUpdate) ==
  IF existingMemoryCount >= 5 /\ newMemoryCount <= 2 THEN FALSE
  ELSE IF minutesSinceUpdate < 60 THEN FALSE
  ELSE IF existingMemoryCount = 0 THEN newMemoryCount > 0
  ELSE 5 * newMemoryCount > existingMemoryCount

----------------------------------------------------------------------------
\* Store and transactions

Store == [events |-> events, links |-> links, eventEmbeddings |-> eventEmbeddings]

LinksOfEvent(ls, eventId) == {l \in ls : l.eventId = eventId}
LinksOfMemory(ls, memoryId) == {l \in ls : l.memoryId = memoryId}

PStore == [processingStatus |-> processingStatus,
           memoryEmbeddings |-> memoryEmbeddings,
           memoryContext |-> memoryContext,
           memoryTags |-> memoryTags,
           memoryPeople |-> memoryPeople]

COALESCE(a, b, null) == IF a # null THEN a ELSE b

\* INSERT ... ON CONFLICT (memory_id) DO UPDATE SET col = COALESCE(EXCLUDED.col,
\* memory_context.col). Both callers pass confirmed, so EXCLUDED.confirmed is
\* never null.
upsert(ctx, input) ==
  LET values == [locationName |-> input.locationName, latitude |-> input.latitude,
                 longitude |-> input.longitude, confirmed |-> input.confirmed]
      row == IF input.memoryId \notin DOMAIN ctx THEN values
             ELSE LET old == ctx[input.memoryId] IN
                  [locationName |-> COALESCE(values.locationName, old.locationName, NULLTEXT),
                   latitude |-> COALESCE(values.latitude, old.latitude, NULL),
                   longitude |-> COALESCE(values.longitude, old.longitude, NULL),
                   confirmed |-> values.confirmed]
  IN [id \in DOMAIN ctx \cup {input.memoryId} |->
        IF id = input.memoryId THEN row ELSE ctx[id]]

\* A statement of a transaction fails on its own when it breaks a constraint.
OpFails(db, w) ==
  CASE w.op = "insertLink" ->
         \E l \in db.links : l.memoryId = w.link.memoryId /\ l.eventId = w.link.eventId
    [] w.op = "insertEmbedding" -> w.eventId \in DOMAIN db.eventEmbeddings
    [] w.op = "updateEvent" -> w.eventId \notin DOMAIN db.events
    [] w.op = "updateMemory" -> db.processingStatus[w.memoryId] = "absent"
    [] w.op = "insertMemoryEmbedding" -> w.memoryId \in db.memoryEmbeddings
    [] OTHER -> FALSE

ApplyOp(db, w) ==
  CASE w.op = "insertEvent" ->
         [db EXCEPT !.events = [id \in DOMAIN db.events \cup {w.row.id} |->
                                  IF id = w.row.id THEN w.row ELSE db.events[id]]]
    [] w.op = "insertLink" -> [db EXCEPT !.links = db.links \cup {w.link}]
    [] w.op = "updateEvent" ->
         [db EXCEPT !.events[w.eventId] =
            [@ EXCEPT !.startTime = w.startTime, !.endTime = w.endTime,
                      !.title = w.title, !.confidenceScore = w.confidenceScore,
                      !.hoursSinceUpdate = 0]]
    [] w.op \in {"insertEmbedding", "upsertEmbedding"} ->
         [db EXCEPT !.eventEmbeddings =
            [id \in DOMAIN db.eventEmbeddings \cup {w.eventId} |->
               IF id = w.eventId THEN w.text ELSE db.eventEmbeddings[id]]]
    [] w.op = "updateMemory" ->
         [db EXCEPT !.processingStatus[w.memoryId] = w.processingStatus]
    [] w.op = "insertMemoryEmbedding" ->
         [db EXCEPT !.memoryEmbeddings = db.memoryEmbeddings \cup {w.memoryId}]
    [] w.op = "upsertContext" ->
         [db EXCEPT !.memoryContext = upsert(db.memoryContext, w.input)]
    [] OTHER -> db

RECURSIVE ApplyAll(_, _)
ApplyAll(db, ops) ==
  IF Len(ops) = 0 THEN db ELSE ApplyAll(ApplyOp(db, Head(ops)), Tail(ops))

\* Index of the first statement that fails (0: none). failAt injects a failure
\* of statement failAt (Len(ops) + 1: the COMMIT itself).
FirstFailure(db, ops, failAt) ==
  LET bad == {k \in 1..Len(ops) : OpFails(ApplyAll(db, SubSeq(ops, 1, k - 1)), ops[k])}
               \cup (IF failAt > 0 THEN {failAt} ELSE {})
  IN IF bad = {} THEN 0 ELSE MinOf(bad)

\* ROLLBACK is skipped: the statements before the failing one stay in the store.
withTransactionNoRollback(db, ops, failAt) ==
  LET k == FirstFailure(db, ops, failAt)
  IN IF k = 0 THEN [ok |-> TRUE, db |-> ApplyAll(db, ops)]
     ELSE [ok |-> FALSE, db |-> ApplyAll(db, SubSeq(ops, 1, k - 1))]

withTransaction(db, ops, failAt) ==
  LET k == FirstFailure(db, ops, failAt)
  IN IF k = 0 THEN [ok |-> TRUE, db |-> ApplyAll(db, ops)]
     ELSE [ok |-> FALSE, db |-> db]

----------------------------------------------------------------------------
\* Repositories

\* SELECT * FROM memories ORDER BY captured_at DESC LIMIT $1 (no user scope).
listRecentWithContextInternal(mem, limit) ==
  LET present == DOMAIN mem
      key == [id \in present |-> mem[id].capturedAt]
  IN {Take(s, limit) : s \in OrderedDesc(present, key)}

\* Events joined to the links of memoryId, ORDER BY start_time DESC (no user scope).
findByMemoryIdInternal(evs, ls, memoryId) ==
  LET ids == {l.eventId : l \in LinksOfMemory(ls, memoryId)}
      key == [id \in ids |-> evs[id].startTime]
  IN OrderedDesc(ids, key)


----------------------------------------------------------------------------
\* Event formation orchestrator

\* What an upload may carry: owner, capture time (minutes), coordinates (metres).
UploadInputs ==
  {[userId |-> "u1", capturedAt |-> 0, latitude |-> 1000, longitude |-> 500],
   [userId |-> "u1", capturedAt |-> 10, latitude |-> 1000, longitude |-> 500],
   [userId |-> "u2", capturedAt |-> 10, latitude |-> NULL, longitude |-> NULL]}

NoEvent == [id |-> 0, userId |-> "", startTime |-> 0, endTime |-> 0,
            title |-> <<"", 0>>, confidenceScore |-> 0, hoursSinceUpdate |-> 0]

Finished(m, result) ==
  /\ fpc' = [fpc EXCEPT ![m] = "idle"]
  /\ nearby' = [nearby EXCEPT ![m] = <<>>]
  /\ existingEvent' = [existingEvent EXCEPT ![m] = NoEvent]
  /\ existingLinks' = [existingLinks EXCEPT ![m] = 0]
  /\ lastResult' = [memoryId |-> m, outcome |-> result, storeUnchanged |-> TRUE]

\* The upload handler stores the memory row; its context columns come with it.
Upload(m) ==
  /\ m \notin DOMAIN memories
  /\ UNCHANGED <<pipeVars, callVars>>
  /\ \A k \in MemoryIds : k < m => k \in DOMAIN memories
  /\ \E input \in UploadInputs :
       memories' = [id \in DOMAIN memories \cup {m} |->
                      IF id = m THEN input ELSE memories[id]]
  /\ lastResult' = [lastResult EXCEPT !.storeUnchanged = FALSE]
  /\ UNCHANGED <<events, links, eventEmbeddings, fpc, nearby, existingEvent,
                 existingLinks, runs>>

\* An hour passes: every row read or stored was updated an hour (or more) ago.
Tick ==
  /\ \/ \E id \in DOMAIN events : events[id].hoursSinceUpdate = 0
     \/ \E m \in DOMAIN existingEvent :
          existingEvent[m].id # 0 /\ existingEvent[m].hoursSinceUpdate = 0
  /\ UNCHANGED <<pipeVars, callVars>>
  /\ events' = [id \in DOMAIN events |-> [events[id] EXCEPT !.hoursSinceUpdate = 1]]
  /\ existingEvent' = [m \in DOMAIN existingEvent |->
                         IF existingEvent[m].id = 0 THEN existingEvent[m]
                         ELSE [existingEvent[m] EXCEPT !.hoursSinceUpdate = 1]]
  /\ UNCHANGED <<memories, links, eventEmbeddings, fpc, nearby,
                 existingLinks, runs, lastResult>>

\* processMemory: load the memory, the candidate pool and the nearby memories.
FormStart(m) ==
  /\ m \in DOMAIN memories
  /\ UNCHANGED <<pipeVars, callVars>>
  /\ fpc[m] = "idle"
  /\ runs < MaxRuns
  /\ \E recentMemories \in listRecentWithContextInternal(memories, RECENT_LIMIT) :
       nearby' = [nearby EXCEPT ![m] = findNearbyMemories(memories, m, recentMemories)]
  /\ fpc' = [fpc EXCEPT ![m] = "lookup"]
  /\ runs' = runs + 1
  /\ UNCHANGED <<memories, events, links, eventEmbeddings, existingEvent,
                 existingLinks, lastResult>>

\* The events the run finds for its nearby memories.
findExistingEventsForMemories(evs, ls, memoryIds) ==
  IF Len(memoryIds) = 0 THEN {<<>>}
  ELSE findByMemoryIdInternal(evs, ls, memoryIds[1])

\* processMemory: look for existing events and decide to attach or to create.
FormLookup(m) ==
  /\ fpc[m] = "lookup"
  /\ UNCHANGED <<pipeVars, callVars>>
  /\ \E existingEvents \in findExistingEventsForMemories(events, links, nearby[m]) :
       IF Len(existingEvents) > 0
       THEN /\ existingEvent' = [existingEvent EXCEPT ![m] = events[existingEvents[1]]]
            /\ fpc' = [fpc EXCEPT ![m] = "attach"]
       ELSE /\ existingEvent' = [existingEvent EXCEPT ![m] = NoEvent]
            /\ fpc' = [fpc EXCEPT ![m] = "create"]
  /\ UNCHANGED <<memories, events, links, eventEmbeddings, nearby,
                 existingLinks, runs, lastResult>>

\* Every link is written as supporting, the first memory's too.
relationshipTypeAlwaysSupporting(memoryId, cluster) ==
  "supporting"

\* Every link is written as primary.
relationshipTypeAlwaysPrimary(memoryId, cluster) ==
  "primary"

relationshipTypeOf(memoryId, cluster) ==
  IF memoryId = cluster[1] THEN "primary" ELSE "supporting"

\* The statements of createNewEvent's transaction, in order.
createNewEventOps(mem, evs, cluster, llm) ==
  LET c == analyzeCluster(mem, cluster)
      synthesis == synthesizeEvent(cluster, llm)
      times == {mem[cluster[i]].capturedAt : i \in 1..Len(cluster)}
      id == Cardinality(DOMAIN evs) + 1
      row == [id |-> id,
              userId |-> mem[cluster[1]].userId,
              startTime |-> MinOf(times),
              endTime |-> MaxOf(times),
              title |-> synthesis.title,
              confidenceScore |-> IF c.clusterConfidence >= synthesis.confidenceScore
                                  THEN c.clusterConfidence ELSE synthesis.confidenceScore,
              hoursSinceUpdate |-> 0]
  IN <<[op |-> "insertEvent", row |-> row]>>
     \o [i \in 1..Len(cluster) |->
           [op |-> "insertLink",
            link |-> [memoryId |-> cluster[i], eventId |-> id,
                      relationshipType |-> relationshipTypeOf(cluster[i], cluster)]]]
     \o <<[op |-> "generateEmbedding"],
          [op |-> "insertEmbedding", eventId |-> id, text |-> row.title]>>

\* createNewEvent: one transaction; any failure rolls back and processMemory
\* returns null.
FormCreate(m) ==
  /\ fpc[m] = "create"
  /\ UNCHANGED <<pipeVars, callVars>>
  /\ UNCHANGED <<memories, runs>>
  /\ \E llm \in LLMOutcomes :
       \E ops \in {createNewEventOps(memories, events, <<m>> \o nearby[m], llm)} :
       \E failAt \in 0..(Len(ops) + 1) :
       \E r \in {withTransaction(Store, ops, failAt)} :
         /\ events' = r.db.events
         /\ links' = r.db.links
         /\ eventEmbeddings' = r.db.eventEmbeddings
         /\ Finished(m, IF r.ok THEN "created" ELSE "failed")

\* attachToExistingEvent, first part: BEGIN, read the event's links, return early
\* when the memory is already linked.
FormAttachBegin(m) ==
  /\ fpc[m] = "attach"
  /\ UNCHANGED <<pipeVars, callVars>>
  /\ UNCHANGED <<memories, events, links, eventEmbeddings, runs>>
  /\ LET existing == LinksOfEvent(links, existingEvent[m].id) IN
     \E readFails \in BOOLEAN :
       IF readFails
       THEN Finished(m, "failed")
       ELSE IF m \in {l.memoryId : l \in existing}
       THEN Finished(m, "already")
       ELSE /\ existingLinks' = [existingLinks EXCEPT ![m] = Cardinality(existing)]
            /\ fpc' = [fpc EXCEPT ![m] = "attachWrite"]
            /\ UNCHANGED <<nearby, existingEvent, lastResult>>

\* The statements of the rest of attachToExistingEvent's transaction, in order.
attachToExistingEventOps(mem, newMemory, existing, existingCount, allClusterMemories, llm) ==
  LET synthesis == synthesizeEvent(allClusterMemories, llm)
      times == {mem[allClusterMemories[i]].capturedAt : i \in 1..Len(allClusterMemories)}
  IN <<[op |-> "insertLink",
        link |-> [memoryId |-> newMemory, eventId |-> existing.id,
                  relationshipType |-> "supporting"]]>>
     \o (IF shouldUpdateEvent(existingCount, 1, 60 * existing.hoursSinceUpdate)
         THEN <<[op |-> "updateEvent", eventId |-> existing.id,
                 startTime |-> MinOf(times), endTime |-> MaxOf(times),
                 title |-> synthesis.title,
                 confidenceScore |-> synthesis.confidenceScore],
                [op |-> "generateEmbedding"],
                [op |-> "upsertEmbedding", eventId |-> existing.id,
                 text |-> synthesis.title]>>
         ELSE <<>>)

\* attachToExistingEvent, second part: link, re-synthesize when due, COMMIT.
FormAttachWrite(m) ==
  /\ fpc[m] = "attachWrite"
  /\ UNCHANGED <<pipeVars, callVars>>
  /\ UNCHANGED <<memories, runs>>
  /\ \E llm \in LLMOutcomes :
       \E ops \in {attachToExistingEventOps(memories, m, existingEvent[m], existingLinks[m],
                                             <<m>> \o nearby[m], llm)} :
       \E failAt \in 0..(Len(ops) + 1) :
       \E r \in {withTransaction(Store, ops, failAt)} :
         /\ events' = r.db.events
         /\ links' = r.db.links
         /\ eventEmbeddings' = r.db.eventEmbeddings
         /\ Finished(m, IF r.ok THEN "attached" ELSE "failed")

----------------------------------------------------------------------------
\* Context inference engine

RECURSIVE SumOf(_)
SumOf(s) == IF Len(s) = 0 THEN 0 ELSE Head(s) + SumOf(Tail(s))

NoPlace == [found |-> FALSE, locationName |-> NULLTEXT, latitude |-> NULL, longitude |-> NULL]

\* contexts: the context rows of the similar memories, in the order read. The
\* name that occurs most often wins, the first such in reading order; the
\* coordinates are the mean (whole metres).
inferPlace(contexts) ==
  LET withLocation == SelectSeq(contexts, LAMBDA c :
                        \/ (c.locationName # NULLTEXT /\ c.locationName # "")
                        \/ (c.latitude # NULL /\ c.longitude # NULL))
      named == SelectSeq(withLocation, LAMBDA c :
                 c.locationName # NULLTEXT /\ c.locationName # "")
      withCoords == SelectSeq(withLocation, LAMBDA c :
                      c.latitude # NULL /\ c.longitude # NULL)
      count(name) == Cardinality({i \in 1..Len(named) : named[i].locationName = name})
      first(name) == MinOf({i \in 1..Len(named) : named[i].locationName = name})
      names == {named[i].locationName : i \in 1..Len(named)}
      locationName ==
        IF names = {} THEN NULLTEXT
        ELSE CHOOSE n \in names :
               \A o \in names : \/ count(n) > count(o)
                                \/ (count(n) = count(o) /\ first(n) <= first(o))
      countCoords == Len(withCoords)
      latitude == IF countCoords > 0
                  THEN SumOf([i \in 1..countCoords |-> withCoords[i].latitude]) \div countCoords
                  ELSE NULL
      longitude == IF countCoords > 0
                   THEN SumOf([i \in 1..countCoords |-> withCoords[i].longitude]) \div countCoords
                   ELSE NULL
  IN IF Len(withLocation) < MIN_OCCURRENCES_FOR_PLACE THEN NoPlace
     ELSE IF locationName = NULLTEXT /\ latitude = NULL THEN NoPlace
     ELSE [found |-> TRUE, locationName |-> locationName,
           latitude |-> latitude, longitude |-> longitude]

\* The ids findSimilar returns for memoryId, the memory itself filtered out: the
\* embedded memories, nearest first (any order), at most the limit.
similarIdsOf(embedded, memoryId) ==
  {Take(SelectSeq(Take(s, SIMILAR_MEMORIES_LIMIT + 1), LAMBDA id : id # memoryId),
        SIMILAR_MEMORIES_LIMIT) :
     s \in OrderedDesc(embedded, [id \in embedded |-> 0])}

MIN_OCCURRENCES_FOR_PERSON == 2
MIN_OCCURRENCES_FOR_TAG == 2
MAX_INFERRED_PEOPLE == 5
MAX_INFERRED_TAGS == 10

\* The tag texts and person names that occur, each list in the order the
\* database sorts them (ORDER BY tag, ORDER BY person_name).
TagCollation == <<" Beach", "beach", "dog">>
PersonCollation == <<"Ann", "Ann ", "Bob">>

\* String.prototype.trim and toLowerCase on the texts above.
trim(text) ==
  CASE text = " Beach" -> "Beach"
    [] text = "Ann " -> "Ann"
    [] OTHER -> text

toLowerCase(text) ==
  CASE text = "Beach" -> "beach"
    [] text = " Beach" -> " beach"
    [] text = "Ann" -> "ann"
    [] text = "Ann " -> "ann "
    [] text = "Bob" -> "bob"
    [] OTHER -> text

RECURSIVE ConcatAll(_)
ConcatAll(ss) == IF Len(ss) = 0 THEN <<>> ELSE Head(ss) \o ConcatAll(Tail(ss))

\* findByMemoryIds of the tag and people repositories, flattened as inferTags and
\* inferPeople walk the map: the texts of the rows of the memories in ids,
\* ORDER BY memory_id, text.  keys[i] = [memoryId, text] of row i of the table.
findByMemoryIds(keys, ids, collation) ==
  LET wanted == Range(ids)
      sortedIds == CHOOSE s \in [1..Cardinality(wanted) -> wanted] :
                     \A i, j \in 1..Cardinality(wanted) : i < j => s[i] < s[j]
      textsOf(m, k) == LET rows == SelectSeq(keys, LAMBDA r :
                                     r.memoryId = m /\ r.text = collation[k])
                       IN [i \in 1..Len(rows) |-> rows[i].text]
      ofMemory(m) == ConcatAll([k \in 1..Len(collation) |-> textsOf(m, k)])
  IN ConcatAll([i \in 1..Cardinality(wanted) |-> ofMemory(sortedIds[i])])

\* The common part of inferPeople and inferTags: count the (normalised, non-empty)
\* texts, keep those counted at least minOccurrences times, sort by count
\* (stable, most frequent first), keep the first maxInferred.  The confidence
\* min(0.99, 0.5 + count / 16 * 0.5) is in units of 1/3200.
inferLabels(texts, minOccurrences, maxInferred) ==
  LET kept == SelectSeq(texts, LAMBDA t : t # "")
      count(l) == Cardinality({i \in 1..Len(kept) : kept[i] = l})
      first(l) == MinOf({i \in 1..Len(kept) : kept[i] = l})
      entries == {l \in Range(kept) : count(l) >= minOccurrences}
      sorted == CHOOSE s \in [1..Cardinality(entries) -> entries] :
                  \A i, j \in 1..Cardinality(entries) :
                    i < j => \/ count(s[i]) > count(s[j])
                             \/ (count(s[i]) = count(s[j]) /\ first(s[i]) < first(s[j]))
      top == Take(sorted, maxInferred)
  IN [i \in 1..Len(top) |->
        [text |-> top[i], confidence |-> MinOf({3168, (16 + count(top[i])) * 100})]]

inferPeople(names) ==
  inferLabels([i \in 1..Len(names) |-> trim(names[i])],
              MIN_OCCURRENCES_FOR_PERSON, MAX_INFERRED_PEOPLE)

inferTags(tags) ==
  inferLabels([i \in 1..Len(tags) |-> toLowerCase(trim(tags[i]))],
              MIN_OCCURRENCES_FOR_TAG, MAX_INFERRED_TAGS)

inferAndStoreContextReplacing(db, memoryId, similarIds) ==
  [db EXCEPT !.memoryTags = SelectSeq(@, LAMBDA r : r.memoryId # memoryId),
             !.memoryPeople = SelectSeq(@, LAMBDA r : r.memoryId # memoryId)]

\* The store after inferAndStoreContext(memoryId) has run to its end, for one
\* order of the similar memories.
inferAndStoreContext(db, memoryId, similarIds) ==
  IF memoryId \notin db.memoryEmbeddings THEN db
  ELSE IF Len(similarIds) = 0 THEN db
  ELSE LET withRow == SelectSeq(similarIds, LAMBDA id : id \in DOMAIN db.memoryContext)
           contexts == [i \in 1..Len(withRow) |-> db.memoryContext[withRow[i]]]
           inferredPlace == inferPlace(contexts)
           inferredPeople ==
             inferPeople(findByMemoryIds(
               [i \in 1..Len(db.memoryPeople) |->
                  [memoryId |-> db.memoryPeople[i].memoryId,
                   text |-> db.memoryPeople[i].personName]],
               similarIds, PersonCollation))
           inferredTags ==
             inferTags(findByMemoryIds(
               [i \in 1..Len(db.memoryTags) |->
                  [memoryId |-> db.memoryTags[i].memoryId, text |-> db.memoryTags[i].tag]],
               similarIds, TagCollation))
           placed ==
             IF inferredPlace.found
             THEN [db EXCEPT !.memoryContext =
                     upsert(db.memoryContext,
                            [memoryId |-> memoryId,
                             locationName |-> inferredPlace.locationName,
                             latitude |-> inferredPlace.latitude,
                             longitude |-> inferredPlace.longitude,
                             confirmed |-> FALSE])]
             ELSE db
       IN [placed EXCEPT
             !.memoryPeople = @ \o [i \in 1..Len(inferredPeople) |->
                                      [memoryId |-> memoryId,
                                       personName |-> inferredPeople[i].text,
                                       confidence |-> inferredPeople[i].confidence,
                                       confirmed |-> FALSE]],
             !.memoryTags = @ \o [i \in 1..Len(inferredTags) |->
                                    [memoryId |-> memoryId,
                                     tag |-> inferredTags[i].text,
                                     confidence |-> inferredTags[i].confidence,
                                     origin |-> "ai"]]]

----------------------------------------------------------------------------
\* Ingestion pipeline

\* The location metadata an upload may carry.
NoMetadata == [locationName |-> NULLTEXT, latitude |-> NULL, longitude |-> NULL]

MetadataInputs ==
  {NoMetadata,
   [locationName |-> "Cafe", latitude |-> 1000, longitude |-> 500],
   [locationName |-> "Park", latitude |-> NULL, longitude |-> NULL]}

NoBackground == [formation |-> "none", inference |-> "none"]

SetPStore(db) ==
  /\ processingStatus' = db.processingStatus
  /\ memoryEmbeddings' = db.memoryEmbeddings
  /\ memoryContext' = db.memoryContext
  /\ memoryTags' = db.memoryTags
  /\ memoryPeople' = db.memoryPeople

\* The upload handler creates the memory row, pending.
PipeUpload(id) ==
  /\ UNCHANGED <<formVars, callVars>>
  /\ processingStatus[id] = "absent"
  /\ \A k \in PipelineIds : k < id => processingStatus[k] # "absent"
  /\ processingStatus' = [processingStatus EXCEPT ![id] = "pending"]
  /\ UNCHANGED <<memoryEmbeddings, memoryContext, memoryTags, memoryPeople, ppc, metadata, entry, raised,
                 returned, background>>

\* processMemory is called: it raises when the memory is not pending.
ProcessMemoryCall(id) ==
  /\ UNCHANGED <<formVars, callVars>>
  /\ processingStatus[id] # "absent"
  /\ ppc[id] = "idle"
  /\ entry' = [entry EXCEPT ![id] = "processMemory"]
  /\ IF processingStatus[id] # "pending"
     THEN /\ raised' = [raised EXCEPT ![id] = "not pending"]
          /\ UNCHANGED <<ppc, metadata>>
     ELSE /\ raised' = [raised EXCEPT ![id] = "none"]
          /\ ppc' = [ppc EXCEPT ![id] = "begin"]
          /\ \E md \in MetadataInputs : metadata' = [metadata EXCEPT ![id] = md]
  /\ UNCHANGED <<processingStatus, memoryEmbeddings, memoryContext, memoryTags, memoryPeople, returned, background>>

\* The failure handler always marks the memory failed, and nothing else.
processMemoryCatchKeepsStatus(db, id) ==
  db

\* The catch block of processMemory: the memory is marked failed.
processMemoryCatch(db, id) ==
  [db EXCEPT !.processingStatus[id] = "failed"]

\* A step of the call fails: catch block, then the ProcessingError is raised.
PipeFailed(db, id) ==
  /\ SetPStore(processMemoryCatch(db, id))
  /\ raised' = [raised EXCEPT ![id] = "failed to process"]
  /\ ppc' = [ppc EXCEPT ![id] = "idle"]
  /\ metadata' = [metadata EXCEPT ![id] = NoMetadata]
  /\ UNCHANGED <<entry, returned, background>>

PipeAdvance(id, stage) ==
  /\ ppc' = [ppc EXCEPT ![id] = stage]
  /\ UNCHANGED <<memoryEmbeddings, memoryContext, memoryTags, memoryPeople, metadata, entry, raised,
                 returned, background>>

\* EXIF capture date, then the memory is marked processing.
PipeBegin(id) ==
  /\ UNCHANGED <<formVars, callVars>>
  /\ ppc[id] = "begin"
  /\ \E fails \in BOOLEAN :
       IF fails THEN PipeFailed(PStore, id)
       ELSE /\ processingStatus' = [processingStatus EXCEPT ![id] = "processing"]
            /\ PipeAdvance(id, "extractText")

PipeExtractText(id) ==
  /\ UNCHANGED <<formVars, callVars>>
  /\ ppc[id] = "extractText"
  /\ \E fails \in BOOLEAN :
       IF fails THEN PipeFailed(PStore, id)
       ELSE UNCHANGED processingStatus /\ PipeAdvance(id, "normalize")

PipeNormalize(id) ==
  /\ UNCHANGED <<formVars, callVars>>
  /\ ppc[id] = "normalize"
  /\ \E fails \in BOOLEAN :
       IF fails THEN PipeFailed(PStore, id)
       ELSE UNCHANGED processingStatus /\ PipeAdvance(id, "generateEmbedding")

PipeGenerateEmbedding(id) ==
  /\ UNCHANGED <<formVars, callVars>>
  /\ ppc[id] = "generateEmbedding"
  /\ \E fails \in BOOLEAN :
       IF fails THEN PipeFailed(PStore, id)
       ELSE UNCHANGED processingStatus /\ PipeAdvance(id, "persist")

\* The statements of processMemory's transaction, in order.
persistOps(id, md) ==
  <<[op |-> "updateMemory", memoryId |-> id, processingStatus |-> "completed"],
    [op |-> "insertMemoryEmbedding", memoryId |-> id]>>
  \o (IF md.latitude # NULL \/ md.longitude # NULL
         \/ (md.locationName # NULLTEXT /\ md.locationName # "")
      THEN <<[op |-> "upsertContext",
              input |-> [memoryId |-> id, latitude |-> md.latitude,
                         longitude |-> md.longitude,
                         locationName |-> md.locationName, confirmed |-> TRUE]]>>
      ELSE <<>>)

\* The transaction, and on COMMIT the two fire-and-forget promises and the return.
PipePersist(id) ==
  /\ UNCHANGED <<formVars, callVars>>
  /\ ppc[id] = "persist"
  /\ \E ops \in {persistOps(id, metadata[id])} :
     \E failAt \in 0..(Len(ops) + 1) :
     \E r \in {withTransaction(PStore, ops, failAt)} :
       IF r.ok
       THEN /\ SetPStore(r.db)
            /\ ppc' = [ppc EXCEPT ![id] = "idle"]
            /\ metadata' = [metadata EXCEPT ![id] = NoMetadata]
            /\ returned' = returned \cup {id}
            /\ background' = [background EXCEPT
                                ![id] = [formation |-> "running", inference |-> "running"]]
            /\ UNCHANGED <<entry, raised>>
       ELSE PipeFailed(r.db, id)

\* retryFailedMemory: raises unless the memory is failed; else marks it pending
\* and calls processMemory (without metadata).
RetryFailedMemory(id) ==
  /\ UNCHANGED <<formVars, callVars>>
  /\ processingStatus[id] # "absent"
  /\ ppc[id] = "idle"
  /\ entry' = [entry EXCEPT ![id] = "retryFailedMemory"]
  /\ IF processingStatus[id] # "failed"
     THEN /\ raised' = [raised EXCEPT ![id] = "not in failed state"]
          /\ UNCHANGED <<processingStatus, ppc>>
     ELSE /\ raised' = [raised EXCEPT ![id] = "none"]
          /\ processingStatus' = [processingStatus EXCEPT ![id] = "pending"]
          /\ ppc' = [ppc EXCEPT ![id] = "begin"]
  /\ UNCHANGED <<memoryEmbeddings, memoryContext, memoryTags, memoryPeople, metadata, returned, background>>

\* The rejection handler fails the ingestion it belongs to.
backgroundCatchFailsIngestion(db, id) ==
  [db EXCEPT !.processingStatus[id] = "failed",
             !.memoryEmbeddings = db.memoryEmbeddings \ {id}]

\* .catch((err) => logger.error(...)): the rejection is logged, nothing else.
backgroundCatch(db, id) ==
  db

\* The event-formation promise settles. What formation writes is in the event
\* store, not here.
BackgroundFormation(id) ==
  /\ UNCHANGED <<formVars, callVars>>
  /\ background[id].formation = "running"
  /\ \E rejects \in BOOLEAN :
       IF rejects
       THEN /\ background' = [background EXCEPT ![id].formation = "rejected"]
            /\ SetPStore(backgroundCatch(PStore, id))
       ELSE /\ background' = [background EXCEPT ![id].formation = "settled"]
            /\ UNCHANGED <<processingStatus, memoryEmbeddings, memoryContext, memoryTags, memoryPeople>>
  /\ UNCHANGED <<ppc, metadata, entry, raised, returned>>

\* The context-inference promise settles: it rejects when a read or the upsert
\* fails, and then nothing was written.
BackgroundInference(id) ==
  /\ UNCHANGED <<formVars, callVars>>
  /\ background[id].inference = "running"
  /\ \E rejects \in BOOLEAN :
       IF rejects
       THEN /\ background' = [background EXCEPT ![id].inference = "rejected"]
            /\ SetPStore(backgroundCatch(PStore, id))
       ELSE /\ background' = [background EXCEPT ![id].inference = "settled"]
            /\ \E similarIds \in similarIdsOf(memoryEmbeddings, id) :
                 SetPStore(inferAndStoreContext(PStore, id, similarIds))
  /\ UNCHANGED <<ppc, metadata, entry, raised, returned>>

----------------------------------------------------------------------------
\* The event store is empty and no formation run is in flight.
InitFormation ==
  /\ memories = <<>>
  /\ events = <<>>
  /\ links = {}
  /\ eventEmbeddings = <<>>
  /\ fpc = [m \in MemoryIds |-> "idle"]
  /\ nearby = [m \in MemoryIds |-> <<>>]
  /\ existingEvent = [m \in MemoryIds |-> NoEvent]
  /\ existingLinks = [m \in MemoryIds |-> 0]
  /\ runs = 0
  /\ lastResult = [memoryId |-> 0, outcome |-> "none", storeUnchanged |-> FALSE]

\* No memory has been uploaded and no ingestion call is in flight.
InitPipeline ==
  /\ processingStatus = [id \in PipelineIds |-> "absent"]
  /\ memoryEmbeddings = {}
  /\ memoryContext = <<>>
  /\ memoryTags = <<>>
  /\ memoryPeople = <<>>
  /\ ppc = [id \in PipelineIds |-> "idle"]
  /\ metadata = [id \in PipelineIds |-> NoMetadata]
  /\ entry = [id \in PipelineIds |-> "none"]
  /\ raised = [id \in PipelineIds |-> "none"]
  /\ returned = {}
  /\ background = [id \in PipelineIds |-> NoBackground]

Init ==
  /\ InitFormation
  /\ InitPipeline
  /\ callInput = NoInput
  /\ callOutput = NoOutput
  /\ callFrame = NoFrame

\* Formation runs one at a time: a run starts when no other is in flight.
FormStartAlone(m) ==
  /\ \A k \in DOMAIN fpc : fpc[k] = "idle"
  /\ FormStart(m)

\* Formation runs overlap, as when two uploads complete together.
FormStartConcurrent(m) ==
  FormStart(m)

Next ==
  \/ \E m \in MemoryIds : Upload(m)
  \/ Tick
  \/ \E m \in MemoryIds : FormStartAlone(m)
  \/ \E m \in MemoryIds : FormLookup(m)
  \/ \E m \in MemoryIds : FormCreate(m)
  \/ \E m \in MemoryIds : FormAttachBegin(m)
  \/ \E m \in MemoryIds : FormAttachWrite(m)

Spec == Init /\ [][Next]_vars

NextConcurrent ==
  \/ \E m \in MemoryIds : Upload(m)
  \/ Tick
  \/ \E m \in MemoryIds : FormStartConcurrent(m)
  \/ \E m \in MemoryIds : FormLookup(m)
  \/ \E m \in MemoryIds : FormCreate(m)
  \/ \E m \in MemoryIds : FormAttachBegin(m)
  \/ \E m \in MemoryIds : FormAttachWrite(m)

SpecConcurrent == Init /\ [][NextConcurrent]_vars

NextPipeline ==
  \/ \E id \in PipelineIds : PipeUpload(id)
  \/ \E id \in PipelineIds : ProcessMemoryCall(id)
  \/ \E id \in PipelineIds : PipeBegin(id)
  \/ \E id \in PipelineIds : PipeExtractText(id)
  \/ \E id \in PipelineIds : PipeNormalize(id)
  \/ \E id \in PipelineIds : PipeGenerateEmbedding(id)
  \/ \E id \in PipelineIds : PipePersist(id)
  \/ \E id \in PipelineIds : RetryFailedMemory(id)
  \/ \E id \in PipelineIds : BackgroundFormation(id)
  \/ \E id \in PipelineIds : BackgroundInference(id)

SpecPipeline == Init /\ [][NextPipeline]_vars

----------------------------------------------------------------------------
\* Properties of event formation

\* The ids of the events, the links and the ids of the event embeddings.
EventRows == [events |-> DOMAIN events, links |-> links,
              eventEmbeddings |-> DOMAIN eventEmbeddings]

\* The step with which the run of m ends in the given outcome.
RunEnds(m, outcome) ==
  /\ fpc[m] \in {"create", "attach", "attachWrite"}
  /\ fpc'[m] = "idle"
  /\ lastResult'.memoryId = m
  /\ lastResult'.outcome = outcome

\* C1: of two runs for two memories of one owner that are nearby each other,
\* at most one creates an event: no run creates an event for a cluster of two
\* whose other memory is already linked to an event.
C1_NoDuplicateEventForCluster ==
  [][\A m \in MemoryIds :
       (/\ RunEnds(m, "created")
        /\ Len(nearby[m]) = 1
        /\ memories[nearby[m][1]].userId = memories[m].userId)
       => LinksOfMemory(links, nearby[m][1]) = {}]_vars

\* C2: a run for the memory whose run succeeded last, with the store unchanged
\* since, adds no event, no link and no event embedding.
C2_RerunAddsNothing ==
  [][\A m \in MemoryIds :
       (/\ lastResult.memoryId = m
        /\ lastResult.outcome \in {"created", "attached", "already"}
        /\ lastResult.storeUnchanged
        /\ fpc'[m] # fpc[m])
       => EventRows' = EventRows]_vars

\* C3: a formation attempt that fails leaves the store exactly as it was, and
\* every event in the store has its embedding, exactly one primary link, and
\* all its links to stored memories.
C3_EventsComplete ==
  \A e \in DOMAIN events :
    /\ e \in DOMAIN eventEmbeddings
    /\ Cardinality({l \in LinksOfEvent(links, e) : l.relationshipType = "primary"}) = 1
    /\ \A l \in LinksOfEvent(links, e) : l.memoryId \in DOMAIN memories

C3_FormationAtomic ==
  /\ []C3_EventsComplete
  /\ [][\A m \in MemoryIds : RunEnds(m, "failed") => Store' = Store]_vars

\* A failed attempt against a store that already holds an event, while a
\* memory is still unlinked.
C3_Witness ==
  /\ lastResult.outcome = "failed"
  /\ lastResult.storeUnchanged
  /\ DOMAIN events # {}
  /\ \E m \in DOMAIN memories : LinksOfMemory(links, m) = {}

\* C5: every memory-event link joins a memory and an event of the same owner.
C5_LinksWithinOwner ==
  \A l \in links : memories[l.memoryId].userId = events[l.eventId].userId

\* C6: every event starts at the minimum and ends at the maximum capture time
\* of the memories linked to it.
C6_BoundsCoverLinkedMemories ==
  \A e \in DOMAIN events :
    LET times == {memories[l.memoryId].capturedAt : l \in LinksOfEvent(links, e)}
    IN times # {} => /\ events[e].startTime = MinOf(times)
                     /\ events[e].endTime = MaxOf(times)

\* The cluster of the run of m: three memories of one owner at the same
\* coordinates within 20 minutes, none linked to an event.
C7_Scenario(m) ==
  LET cluster == <<m>> \o nearby[m]
      rows == {memories[cluster[i]] : i \in 1..Len(cluster)}
  IN /\ Len(nearby[m]) = 2
     /\ \A r1, r2 \in rows :
          /\ r1.userId = r2.userId
          /\ Truthy(r1.latitude) /\ Truthy(r1.longitude)
          /\ r1.latitude = r2.latitude /\ r1.longitude = r2.longitude
          /\ Abs(r1.capturedAt - r2.capturedAt) <= 20
     /\ \A k \in Range(cluster) : LinksOfMemory(links, k) = {}

\* C7: for three memories of one owner at the same coordinates within 20
\* minutes, none linked, formation decides to create, and what it creates is one
\* event with 1 primary and 2 supporting links and confidence at least 0.8.
C7_ThreeMemoriesOneEvent ==
  [][\A m \in MemoryIds :
       /\ (fpc[m] = "lookup" /\ fpc'[m] # "lookup" /\ C7_Scenario(m))
            => fpc'[m] = "create"
       /\ (RunEnds(m, "created") /\ C7_Scenario(m))
            => \E e \in DOMAIN events' \ DOMAIN events :
                 /\ DOMAIN events' = DOMAIN events \cup {e}
                 /\ links' \ links = LinksOfEvent(links', e)
                 /\ {l.memoryId : l \in {x \in links' : x.eventId = e
                                           /\ x.relationshipType = "primary"}} = {m}
                 /\ {l.memoryId : l \in {x \in links' : x.eventId = e
                                           /\ x.relationshipType = "supporting"}}
                      = Range(nearby[m])
                 /\ events'[e].confidenceScore >= 80]_vars

\* One event in the store, made of three memories of one owner at one place.
C7_Witness ==
  /\ Cardinality(DOMAIN events) = 1
  /\ lastResult.outcome = "created"
  /\ \E e \in DOMAIN events :
       /\ Cardinality(LinksOfEvent(links, e)) = 3
       /\ Cardinality({memories[l.memoryId].userId : l \in LinksOfEvent(links, e)}) = 1
       /\ \A l \in LinksOfEvent(links, e) : Truthy(memories[l.memoryId].latitude)
       /\ events[e].confidenceScore >= 80

\* C8: a run decides to create an event only when none of its nearby memories
\* is linked to an event.
C8_CreateOnlyWhenNoNearbyLinked ==
  [][\A m \in MemoryIds :
       (fpc[m] = "lookup" /\ fpc'[m] = "create")
       => \A k \in Range(nearby[m]) : LinksOfMemory(links, k) = {}]_vars

----------------------------------------------------------------------------
\* Properties of ingestion and context inference

\* C4: a context row that is confirmed and holds a place name or coordinates
\* is the same row after context inference has run for its memory.
C4_ConfirmedContextKept ==
  [][\A id \in PipelineIds :
       (/\ background[id].inference = "running"
        /\ background'[id].inference # "running"
        /\ id \in DOMAIN memoryContext
        /\ memoryContext[id].confirmed
        /\ \/ memoryContext[id].locationName # NULLTEXT
           \/ memoryContext[id].latitude # NULL
           \/ memoryContext[id].longitude # NULL)
       => memoryContext'[id] = memoryContext[id]]_vars

\* C9: when the event-formation promise or the context-inference promise of a
\* memory has rejected, processMemory has returned its result for the memory,
\* the memory is completed and its embedding is stored; and the rejection
\* itself changes neither status nor embeddings.
C9_Ingested ==
  \A id \in PipelineIds :
    ("rejected" \in {background[id].formation, background[id].inference})
    => /\ id \in returned
       /\ processingStatus[id] = "completed"
       /\ id \in memoryEmbeddings

C9_BackgroundFailureSwallowed ==
  /\ []C9_Ingested
  /\ [][(\E id \in PipelineIds :
           /\ background'[id] # background[id]
           /\ "rejected" \in {background'[id].formation, background'[id].inference})
        => /\ processingStatus' = processingStatus
           /\ memoryEmbeddings' = memoryEmbeddings
           /\ returned' = returned
           /\ raised' = raised]_vars

\* Both promises of one memory have rejected.
C9_Witness ==
  \E id \in PipelineIds :
    /\ background[id].formation = "rejected"
    /\ background[id].inference = "rejected"

\* The step with which the call for id ends without returning a result.
PipeFails(id) ==
  /\ ppc[id] \in {"begin", "extractText", "normalize", "generateEmbedding", "persist"}
  /\ ppc'[id] = "idle"
  /\ id \notin returned' \ returned

\* The step that is a call of retryFailedMemory for id.
RetryCalled(id) ==
  /\ ppc[id] = "idle"
  /\ entry'[id] = "retryFailedMemory"
  /\ <<entry[id], ppc[id], raised[id]>> # <<entry'[id], ppc'[id], raised'[id]>>

C10_FailedHasNoEmbedding ==
  \A id \in PipelineIds :
    /\ processingStatus[id] = "failed" => id \notin memoryEmbeddings
    /\ id \in memoryEmbeddings => processingStatus[id] = "completed"

----------------------------------------------------------------------------
\* shouldUpdateEvent, called on its own

MaxExistingCount == 15   \* existing linked memories of the event
MaxNewCount == 3         \* memories added

\* Minutes since the event's last update that a call may see.
MinutesSinceUpdate == {0, 30, 59, 60, 120}

ShouldUpdateInputs ==
  [fn : {"shouldUpdateEvent"}, existingMemoryCount : 1..MaxExistingCount,
   newMemoryCount : 0..MaxNewCount, minutesSinceUpdate : MinutesSinceUpdate]

InitShouldUpdate ==
  /\ InitFormation
  /\ InitPipeline
  /\ callInput \in ShouldUpdateInputs
  /\ callOutput = NoOutput
  /\ callFrame = NoFrame

CallShouldUpdateEvent ==
  /\ callOutput = NoOutput
  /\ callOutput' = [fn |-> "shouldUpdateEvent",
                value |-> shouldUpdateEvent(callInput.existingMemoryCount, callInput.newMemoryCount,
                                            callInput.minutesSinceUpdate)]
  /\ UNCHANGED <<formVars, pipeVars, callInput, callFrame>>

NextShouldUpdate ==
  CallShouldUpdateEvent

SpecShouldUpdate == InitShouldUpdate /\ [][NextShouldUpdate]_vars

\* C13: shouldUpdateEvent(E, A, T), E >= 1, is false if E >= 5 and A <= 2, false
\* if T < 1 hour, and otherwise true exactly when A / E > 0.2.
C13_ShouldUpdatePolicy ==
  callOutput.fn = "shouldUpdateEvent" =>
    LET E == callInput.existingMemoryCount
        A == callInput.newMemoryCount
        T == callInput.minutesSinceUpdate
    IN callOutput.value = (IF E >= 5 /\ A <= 2 THEN FALSE
                       ELSE IF T < 60 THEN FALSE
                       ELSE 10 * A > 2 * E)

\* The call (E = 4, A = 2, T = 2 h) has answered true.
C13_Witness ==
  /\ callOutput.fn = "shouldUpdateEvent"
  /\ callInput.existingMemoryCount = 4 /\ callInput.newMemoryCount = 2
  /\ callInput.minutesSinceUpdate = 120
  /\ callOutput.value = TRUE

----------------------------------------------------------------------------
\* Resurfacing. Times are hours; confidences are hundredths.

RESURFACE_LIST_LIMIT == 500

\* new Date() at the call, in hours.
NowHours == 10000

\* Hours before now at which an event may have started: 3 days, exactly 7 days,
\* 10 days, 10 days and 10 hours, exactly 365 days.
StartAgesHours == {72, 168, 240, 250, 8760}

\* What else an event row carries: confidence, length of the summary, place,
\* number of emotional keywords in title and summary, duration in hours.
PlainEvent == [confidenceScore |-> 0, summaryLength |-> 0, locationName |-> NULLTEXT,
               emotionalCount |-> 0, durationHours |-> 0]
RichEvent == [confidenceScore |-> 100, summaryLength |-> 200, locationName |-> "Cafe",
              emotionalCount |-> 10, durationHours |-> 3]

ResurfaceEventIds == {1, 2, 3}

\* The events tables a call may find.
ResurfaceTables ==
  [ResurfaceEventIds ->
     [userId : UserIds, ageHours : StartAgesHours, detail : {PlainEvent, RichEvent}]]

startTimeOf(row) == NowHours - row.ageHours

\* SELECT * FROM events WHERE user_id = $1 ORDER BY start_time DESC LIMIT $2.
listRecentAllUsers(table, limit, userId) ==
  {Take(s, limit) :
     s \in OrderedDesc(DOMAIN table, [id \in DOMAIN table |-> startTimeOf(table[id])])}

listRecent(table, limit, userId) ==
  LET ids == {id \in DOMAIN table : table[id].userId = userId}
  IN {Take(s, limit) : s \in OrderedDesc(ids, [id \in ids |-> startTimeOf(table[id])])}

\* The anniversary term of the score, from the whole days since the event started.
anniversaryBonus(daysSince) ==
  IF daysSince % 365 = 0 /\ daysSince >= 365 THEN 120
  ELSE IF Abs((daysSince % 365) - 365) <= 3 /\ daysSince >= 365 THEN 100
  ELSE IF daysSince % 30 = 0 /\ daysSince >= 30 THEN 50
  ELSE IF daysSince % 7 = 0 /\ daysSince >= 14 THEN 25
  ELSE 0

\* The score selectEventToResurf gives an event.
resurfaceScore(row) ==
  LET daysSince == (NowHours - startTimeOf(row)) \div 24
      d == row.detail
      anniversary == anniversaryBonus(daysSince)
      age == IF daysSince >= 14 /\ daysSince <= 180 THEN 40
             ELSE IF daysSince > 180 /\ daysSince <= 365 THEN 30
             ELSE IF daysSince > 365 THEN 20
             ELSE 0
      confidenceBonus == (d.confidenceScore * 30 + 50) \div 100
      richness == IF d.summaryLength > 150 THEN 20
                  ELSE IF d.summaryLength > 50 THEN 10 ELSE 0
      place == IF d.locationName # NULLTEXT /\ d.locationName # "" THEN 15 ELSE 0
      emotional == IF d.emotionalCount > 0 THEN d.emotionalCount * 8 ELSE 0
      duration == IF d.durationHours >= 2 THEN 10 ELSE 0
  IN anniversary + age + confidenceBonus + richness + place + emotional + duration

\* Array.prototype.sort((a, b) => b.score - a.score): stable, score descending.
sortByScore(table, ids) ==
  LET n == Len(ids)
      sc(i) == resurfaceScore(table[ids[i]])
      perm == CHOOSE q \in [1..n -> 1..n] :
                /\ \A i, j \in 1..n : i # j => q[i] # q[j]
                /\ \A i, j \in 1..n : i < j =>
                     \/ sc(q[i]) > sc(q[j])
                     \/ (sc(q[i]) = sc(q[j]) /\ q[i] < q[j])
  IN [i \in 1..n |-> ids[perm[i]]]

\* The event ids selectEventToResurf may return for the events listed (0: null);
\* Math.random() may pick any of the top three.
selectEventToResurf(table, allEvents) ==
  LET sevenDaysAgo == NowHours - 7 * 24
      eligibleEvents == SelectSeq(allEvents, LAMBDA id : startTimeOf(table[id]) < sevenDaysAgo)
      scoredEvents == sortByScore(table, eligibleEvents)
      top3 == Take(scoredEvents, 3)
      oldest == startTimeOf(table[top3[Len(top3)]])
      newest == startTimeOf(table[top3[1]])
  IN IF Len(eligibleEvents) = 0 THEN {0}
     ELSE IF Len(top3) >= 2 /\ newest - oldest < 24 THEN Range(top3)
     ELSE {scoredEvents[1]}

ResurfaceInputs ==
  [fn : {"selectEventToResurf"}, userId : UserIds, table : ResurfaceTables,
   listFails : BOOLEAN]

InitResurface ==
  /\ InitFormation
  /\ InitPipeline
  /\ callInput \in ResurfaceInputs
  /\ callOutput = NoOutput
  /\ callFrame = NoFrame

\* One call of selectEventToResurf(userId); a failure of the listing is caught and
\* null is returned.
CallSelectEventToResurf ==
  /\ callOutput = NoOutput
  /\ IF callInput.listFails
     THEN callOutput' = [fn |-> "selectEventToResurf", listed |-> <<>>, eventId |-> 0]
     ELSE \E allEvents \in listRecent(callInput.table, RESURFACE_LIST_LIMIT, callInput.userId) :
          \E selected \in selectEventToResurf(callInput.table, allEvents) :
            callOutput' = [fn |-> "selectEventToResurf", listed |-> allEvents,
                           eventId |-> selected]
  /\ UNCHANGED <<formVars, pipeVars, callInput, callFrame>>

NextResurface ==
  CallSelectEventToResurf

SpecResurface == InitResurface /\ [][NextResurface]_vars

\* C11: with one event exactly 365 days old and two events 10 days old, all of
\* the user, the 365-day-old event is the one selected.
C11_AnniversarySelected ==
  (/\ callOutput.fn = "selectEventToResurf"
   /\ ~callInput.listFails
   /\ \A id \in ResurfaceEventIds : callInput.table[id].userId = callInput.userId
   /\ Cardinality({id \in ResurfaceEventIds : callInput.table[id].ageHours = 8760}) = 1
   /\ Cardinality({id \in ResurfaceEventIds :
                     callInput.table[id].ageHours \div 24 = 10}) = 2)
  => callInput.table[callOutput.eventId].ageHours = 8760

\* C12: the call returns none or an event of the user that started more than 7
\* days ago, and none exactly when no event it listed is such an event.
C12_EligibleOwnEvent ==
  callOutput.fn = "selectEventToResurf" =>
    LET eligible == {id \in Range(callOutput.listed) :
                       /\ callInput.table[id].userId = callInput.userId
                       /\ callInput.table[id].ageHours > 7 * 24}
    IN /\ \A id \in Range(callOutput.listed) : callInput.table[id].userId = callInput.userId
       /\ IF eligible = {} THEN callOutput.eventId = 0
          ELSE callOutput.eventId \in eligible

\* An event of the user was returned while another user's older event is in the
\* table, and the user also has an event that is exactly 7 days old.
C12_Witness ==
  /\ callOutput.fn = "selectEventToResurf"
  /\ callOutput.eventId # 0
  /\ \E id \in ResurfaceEventIds :
       /\ callInput.table[id].userId # callInput.userId
       /\ callInput.table[id].ageHours = 8760
  /\ \E id \in ResurfaceEventIds :
       /\ callInput.table[id].userId = callInput.userId
       /\ callInput.table[id].ageHours = 168

----------------------------------------------------------------------------
\* The clustering engine, its functions called on their own

MaxClusterSize == 5   \* memories handed to one call

\* The memories a call may be given: capture time (minutes), coordinates
\* (metres; latitude 0 is the equator), place name.
ClusterMemoryInputs ==
  {[capturedAt |-> 0, latitude |-> 1000, longitude |-> 500, locationName |-> "Cafe"],
   [capturedAt |-> 30, latitude |-> 1050, longitude |-> 500, locationName |-> "Cafe"],
   [capturedAt |-> 31, latitude |-> 1051, longitude |-> 500, locationName |-> "Park"],
   [capturedAt |-> 60, latitude |-> 1100, longitude |-> 500, locationName |-> "Park"],
   [capturedAt |-> 91, latitude |-> 1200, longitude |-> 500, locationName |-> NULLTEXT],
   [capturedAt |-> 0, latitude |-> 0, longitude |-> 500, locationName |-> "Cafe"],
   [capturedAt |-> 90, latitude |-> NULL, longitude |-> NULL, locationName |-> NULLTEXT],
   [capturedAt |-> 45, latitude |-> 1201, longitude |-> 500, locationName |-> "Park"]}

\* memories[i] of a call is the memory with id i.
ClusterInputs ==
  UNION {[fn : {"clustering"}, memories : [1..n -> ClusterMemoryInputs]] :
           n \in 0..MaxClusterSize}

NoLocation == [locationName |-> NULLTEXT, latitude |-> NULL, longitude |-> NULL]

\* ids: the memories of the cluster, rows in mem. The name that occurs most often
\* among the located memories wins (the first such); the coordinates are the mean
\* (whole metres).
extractClusterLocation(mem, ids) ==
  LET memoriesWithLocation == SelectSeq(ids, LAMBDA id :
                                Truthy(mem[id].latitude) /\ Truthy(mem[id].longitude))
      n == Len(memoriesWithLocation)
      named == SelectSeq(memoriesWithLocation, LAMBDA id :
                 mem[id].locationName # NULLTEXT /\ mem[id].locationName # "")
      names == {mem[named[i]].locationName : i \in 1..Len(named)}
      count(name) == Cardinality({i \in 1..Len(named) : mem[named[i]].locationName = name})
      first(name) == MinOf({i \in 1..Len(named) : mem[named[i]].locationName = name})
      mostCommonLocation ==
        IF names = {} THEN NULLTEXT
        ELSE CHOOSE c \in names :
               \A o \in names : \/ count(c) > count(o)
                                \/ (count(c) = count(o) /\ first(c) <= first(o))
  IN IF n = 0 THEN NoLocation
     ELSE [locationName |-> mostCommonLocation,
           latitude |-> SumOf([i \in 1..n |-> mem[memoriesWithLocation[i]].latitude]) \div n,
           longitude |-> SumOf([i \in 1..n |-> mem[memoriesWithLocation[i]].longitude]) \div n]

InitClustering ==
  /\ InitFormation
  /\ InitPipeline
  /\ callInput \in ClusterInputs
  /\ callOutput = NoOutput
  /\ callFrame = NoFrame

\* findNearbyMemories(memories[0], memories): the first memory is the target,
\* and it is among the candidates, as it is among the recent memories.
CallFindNearbyMemories ==
  /\ callOutput = NoOutput
  /\ Len(callInput.memories) >= 1
  /\ callOutput' = [fn |-> "findNearbyMemories",
                    value |-> findNearbyMemories(callInput.memories, 1,
                                [i \in 1..Len(callInput.memories) |-> i])]
  /\ UNCHANGED <<formVars, pipeVars, callInput, callFrame>>

CallAnalyzeCluster ==
  /\ callOutput = NoOutput
  /\ callOutput' = [fn |-> "analyzeCluster",
                    value |-> analyzeCluster(callInput.memories,
                                [i \in 1..Len(callInput.memories) |-> i])]
  /\ UNCHANGED <<formVars, pipeVars, callInput, callFrame>>

CallExtractClusterLocation ==
  /\ callOutput = NoOutput
  /\ callOutput' = [fn |-> "extractClusterLocation",
                    value |-> extractClusterLocation(callInput.memories,
                                [i \in 1..Len(callInput.memories) |-> i])]
  /\ UNCHANGED <<formVars, pipeVars, callInput, callFrame>>

NextClustering ==
  \/ CallFindNearbyMemories
  \/ CallAnalyzeCluster
  \/ CallExtractClusterLocation

SpecClustering == InitClustering /\ [][NextClustering]_vars

\* A memory carries coordinates when both columns hold a number.
HasCoordinates(row) == row.latitude # NULL /\ row.longitude # NULL

\* C14: findNearbyMemories returns exactly the candidates other than the target
\* that are at most 90 minutes away in time and, when both the target and the
\* candidate carry coordinates, at most 150 m away.
C14_NearbyExactly ==
  callOutput.fn = "findNearbyMemories" =>
    LET mem == callInput.memories
        target == mem[1]
        Wanted(id) ==
          /\ id # 1
          /\ Abs(mem[id].capturedAt - target.capturedAt) <= 90
          /\ (HasCoordinates(target) /\ HasCoordinates(mem[id]))
             => calculateDistance(target.latitude, target.longitude,
                                  mem[id].latitude, mem[id].longitude) <= 150
    IN callOutput.value = SelectSeq([i \in 1..Len(mem) |-> i], Wanted)

\* C15: analyzeCluster gives confidence 0 for no memory, 0.7 for one, and for
\* N >= 2 memories 0.5 plus the size, time-span and distance increments, the
\* distance increment taken over the members that carry coordinates when there
\* are at least 2 of them, capped at 1; isTightCluster is confidence >= 0.7.
C15_ClusterConfidence ==
  callOutput.fn = "analyzeCluster" =>
    LET mem == callInput.memories
        N == Len(mem)
        times == {mem[i].capturedAt : i \in 1..N}
        span == MaxOf(times) - MinOf(times)
        located == {i \in 1..N : HasCoordinates(mem[i])}
        maxDistance == MaxOf({calculateDistance(mem[i].latitude, mem[i].longitude,
                                                mem[j].latitude, mem[j].longitude) :
                                i, j \in located})
        sum == 50 + (IF N >= 3 THEN 20 ELSE 0) + (IF N >= 5 THEN 10 ELSE 0)
                  + (IF span <= 30 THEN 20 ELSE IF span <= 60 THEN 10 ELSE 0)
                  + (IF Cardinality(located) >= 2
                     THEN (IF maxDistance <= 50 THEN 20
                           ELSE IF maxDistance <= 100 THEN 10 ELSE 0)
                     ELSE 0)
        expected == IF N = 0 THEN 0
                    ELSE IF N = 1 THEN 70
                    ELSE IF sum > 100 THEN 100 ELSE sum
    IN /\ callOutput.value.clusterConfidence = expected
       /\ callOutput.value.isTightCluster = (expected >= 70)

\* C17: for a non-empty cluster whose members all carry one place name and one
\* coordinate, extractClusterLocation returns that name and that coordinate.
C17_LocationRoundTrip ==
  (/\ callOutput.fn = "extractClusterLocation"
   /\ Len(callInput.memories) >= 1
   /\ \A i \in 1..Len(callInput.memories) :
        /\ callInput.memories[i].locationName = callInput.memories[1].locationName
        /\ callInput.memories[i].latitude = callInput.memories[1].latitude
        /\ callInput.memories[i].longitude = callInput.memories[1].longitude
   /\ callInput.memories[1].locationName # NULLTEXT
   /\ HasCoordinates(callInput.memories[1]))
  => callOutput.value = [locationName |-> callInput.memories[1].locationName,
                         latitude |-> callInput.memories[1].latitude,
                         longitude |-> callInput.memories[1].longitude]

----------------------------------------------------------------------------
\* Hybrid retrieval score.  Signals (embed, temporal, place, people, tags) are in
\* thousandths, weights in hundredths, so a score of 1 is 100000.

W_EMBED == 45
W_TEMPORAL == 20
W_PLACE == 20
W_PEOPLE == 10
W_TAGS == 5
ScoreOne == 100000

\* embeddingSimilarity as callers may pass it, in thousandths; the field is a
\* plain number, so values outside 0..1 are included.
EmbeddingSimilarities == {-500, 0, 1, 250, 500, 999, 1000, 1500}

\* capturedAt of the scored memory, in hours; "now" is NowHours.
CapturedAtHours == {NowHours - d : d \in {0, 24, 25, 168, 169, 720, 721}} \cup {NowHours + 25}

ReferenceTimes == {NULL, NowHours - 168}

ScorerContexts ==
  {[present |-> FALSE, locationName |-> NULLTEXT, latitude |-> NULL, longitude |-> NULL],
   [present |-> TRUE, locationName |-> NULLTEXT, latitude |-> NULL, longitude |-> NULL],
   [present |-> TRUE, locationName |-> "Cafe", latitude |-> NULL, longitude |-> NULL],
   [present |-> TRUE, locationName |-> NULLTEXT, latitude |-> 1000, longitude |-> NULL],
   [present |-> TRUE, locationName |-> NULLTEXT, latitude |-> 0, longitude |-> 0]}

ScorerInputs ==
  [fn : {"hybridScore"},
   capturedAt : CapturedAtHours,
   embeddingSimilarity : EmbeddingSimilarities,
   context : ScorerContexts,
   tags : 0..2,
   people : 0..2,
   referenceTime : ReferenceTimes]

hybridScoreNoClamp(in) ==
  LET embed == in.embeddingSimilarity
      refTime == IF in.referenceTime = NULL THEN NowHours ELSE in.referenceTime
      diffHours == Abs(refTime - in.capturedAt)
      temporal == IF diffHours <= 24 THEN 1000
                  ELSE IF diffHours <= 7 * 24 THEN 700
                  ELSE IF diffHours <= 30 * 24 THEN 300 ELSE 0
      place == IF in.context.present
                  /\ (\/ in.context.locationName # NULLTEXT
                      \/ (in.context.latitude # NULL /\ in.context.longitude # NULL))
               THEN 1000 ELSE 0
      people == IF in.people > 0 THEN 1000 ELSE 0
      tags == IF in.tags > 0 THEN 1000 ELSE 0
  IN [score |-> W_EMBED * embed + W_TEMPORAL * temporal + W_PLACE * place
                + W_PEOPLE * people + W_TAGS * tags,
      breakdown |-> [embedding |-> W_EMBED * embed,
                     temporal |-> W_TEMPORAL * temporal,
                     place |-> W_PLACE * place,
                     people |-> W_PEOPLE * people,
                     tags |-> W_TAGS * tags]]

\* in.tags and in.people are the lengths of the tag and person lists.
hybridScore(in) ==
  LET embed == MaxOf({0, MinOf({1000, in.embeddingSimilarity})})
      refTime == IF in.referenceTime = NULL THEN NowHours ELSE in.referenceTime
      diffHours == Abs(refTime - in.capturedAt)
      temporal == IF diffHours <= 24 THEN 1000
                  ELSE IF diffHours <= 7 * 24 THEN 700
                  ELSE IF diffHours <= 30 * 24 THEN 300 ELSE 0
      place == IF in.context.present
                  /\ (\/ in.context.locationName # NULLTEXT
                      \/ (in.context.latitude # NULL /\ in.context.longitude # NULL))
               THEN 1000 ELSE 0
      people == IF in.people > 0 THEN 1000 ELSE 0
      tags == IF in.tags > 0 THEN 1000 ELSE 0
  IN [score |-> W_EMBED * embed + W_TEMPORAL * temporal + W_PLACE * place
                + W_PEOPLE * people + W_TAGS * tags,
      breakdown |-> [embedding |-> W_EMBED * embed,
                     temporal |-> W_TEMPORAL * temporal,
                     place |-> W_PLACE * place,
                     people |-> W_PEOPLE * people,
                     tags |-> W_TAGS * tags]]

InitHybridScore ==
  /\ InitFormation
  /\ InitPipeline
  /\ callInput \in ScorerInputs
  /\ callOutput = NoOutput
  /\ callFrame = NoFrame

CallHybridScore ==
  /\ callOutput = NoOutput
  /\ callOutput' = [fn |-> "hybridScore", value |-> hybridScore(callInput)]
  /\ UNCHANGED <<formVars, pipeVars, callInput, callFrame>>

NextHybridScore == CallHybridScore

SpecHybridScore == InitHybridScore /\ [][NextHybridScore]_vars

\* C16: the hybrid score lies in [0,1], is the sum of its five breakdown terms,
\* each the weight times its signal, and does not decrease when only the
\* embedding similarity of the input grows.
C16_HybridScoreBounded ==
  callOutput.fn = "hybridScore" =>
    LET out == callOutput.value
        b == out.breakdown
    IN /\ out.score >= 0 /\ out.score <= ScoreOne
       /\ out.score = b.embedding + b.temporal + b.place + b.people + b.tags
       /\ b.embedding \in {W_EMBED * e : e \in 0..1000}
       /\ b.temporal \in {W_TEMPORAL * t : t \in {0, 300, 700, 1000}}
       /\ b.place \in {0, W_PLACE * 1000}
       /\ b.people \in {0, W_PEOPLE * 1000}
       /\ b.tags \in {0, W_TAGS * 1000}
       /\ \A e \in EmbeddingSimilarities :
            e >= callInput.embeddingSimilarity
              => hybridScore([callInput EXCEPT !.embeddingSimilarity = e]).score >= out.score

\* A similarity above 1 was clamped: every signal is present and the score is
\* exactly 1.
C16_Witness ==
  /\ callOutput.fn = "hybridScore"
  /\ callInput.embeddingSimilarity = 1500
  /\ callOutput.value.score = ScoreOne

----------------------------------------------------------------------------
\* Temporal query parser.  A query is the sequence of its lower-cased words
\* (the string is the words joined by single spaces); a pattern is a sequence
\* of words, and "includes" is containment of consecutive words.  A date is
\* kept as the calendar arithmetic applied to "now".

MaxQueryWords == 3

QueryWords == {"coffee", "first", "time", "last", "week", "this", "before",
               "after", "around", "recently", "yesterday", "3", "days"}

NumberWords == {"3"}

DaysOfWeek == {0, 3, 6}

TemporalInputs ==
  UNION {[fn : {"parse"}, query : [1..n -> QueryWords], dayOfWeek : DaysOfWeek] :
           n \in 0..MaxQueryWords}

\* new Date(): no arithmetic applied, nothing parsed.
NowDate == [years |-> 0, months |-> 0, days |-> 0, dayOfMonth |-> NULL, midnight |-> FALSE, parsed |-> <<>>]
NoDate == [years |-> 0, months |-> 0, days |-> 0, dayOfMonth |-> NULL, midnight |-> FALSE, parsed |-> <<"undefined">>]
NoPhrase == <<"undefined">>

includes(query, pattern) ==
  \E i \in 1..Len(query) :
    /\ i + Len(pattern) - 1 <= Len(query)
    /\ \A k \in 1..Len(pattern) : query[i + k - 1] = pattern[k]

matchesPattern(query, patterns) ==
  \E k \in 1..Len(patterns) : includes(query, patterns[k])

extractPhrase(query, patterns) ==
  IF matchesPattern(query, patterns)
  THEN patterns[MinOf({k \in 1..Len(patterns) : includes(query, patterns[k])})]
  ELSE NoPhrase

\* query.match(/<word> (.+?)(?:\?|$)/) for a word of `words`: the text after
\* the leftmost such word that is followed by something; <<>> when no match.
\* The result is <<dateStr>> so that "no match" differs from every match.
matchAfter(query, words) ==
  LET at == {i \in 1..(Len(query) - 1) : query[i] \in words}
  IN IF at = {} THEN <<>>
     ELSE <<SubSeq(query, MinOf(at) + 1, Len(query))>>

\* The possible results: new Date(dateStr) on free text is left to the engine
\* when the text holds a number.
parseRelativeDate(dateStr) ==
  IF dateStr = <<"today">> THEN {NowDate}
  ELSE IF dateStr = <<"yesterday">> THEN {[NowDate EXCEPT !.days = -1]}
  ELSE IF dateStr = <<"tomorrow">> THEN {[NowDate EXCEPT !.days = 1]}
  ELSE IF includes(dateStr, <<"last", "week">>) THEN {[NowDate EXCEPT !.days = -7]}
  ELSE IF includes(dateStr, <<"this", "week">>) THEN {NowDate}
  ELSE IF includes(dateStr, <<"last", "month">>) THEN {[NowDate EXCEPT !.months = -1]}
  ELSE IF includes(dateStr, <<"this", "month">>) THEN {NowDate}
  ELSE IF includes(dateStr, <<"last", "year">>) THEN {[NowDate EXCEPT !.years = -1]}
  ELSE IF \E i \in 1..Len(dateStr) : dateStr[i] \in NumberWords
       THEN {[NowDate EXCEPT !.parsed = dateStr], NowDate}
  ELSE {NowDate}

NoRange == [startDate |-> NoDate, endDate |-> NoDate, phrase |-> NoPhrase]

parseTimeRange(query, dayOfWeek) ==
  LET lastDays == {i \in 1..(Len(query) - 2) :
                     /\ query[i] \in {"last", "past"}
                     /\ query[i + 1] \in NumberWords
                     /\ query[i + 2] \in {"day", "days"}}
      days == IF query[MinOf(lastDays) + 1] = "3" THEN 3 ELSE 0
  IN IF lastDays # {}
     THEN [startDate |-> [NowDate EXCEPT !.days = -days], endDate |-> NowDate,
           phrase |-> <<"last", query[MinOf(lastDays) + 1], "days">>]
     ELSE IF includes(query, <<"last", "week">>)
     THEN [startDate |-> [NowDate EXCEPT !.days = -7], endDate |-> NowDate,
           phrase |-> <<"last", "week">>]
     ELSE IF includes(query, <<"this", "week">>)
     THEN [startDate |-> [NowDate EXCEPT !.days = -dayOfWeek], endDate |-> NowDate,
           phrase |-> <<"this", "week">>]
     ELSE IF includes(query, <<"last", "month">>)
     THEN [startDate |-> [NowDate EXCEPT !.months = -1, !.dayOfMonth = 1],
           endDate |-> [NowDate EXCEPT !.dayOfMonth = 0],
           phrase |-> <<"last", "month">>]
     ELSE IF includes(query, <<"this", "month">>)
     THEN [startDate |-> [NowDate EXCEPT !.dayOfMonth = 1, !.midnight = TRUE],
           endDate |-> NowDate, phrase |-> <<"this", "month">>]
     ELSE NoRange

FirstPatterns == <<<<"first", "time">>, <<"earliest">>, <<"when", "did", "i", "first">>, <<"initial">>>>
LastPatterns == <<<<"last", "time">>, <<"most", "recent">>, <<"latest">>, <<"when", "did", "i", "last">>>>
RecentPatterns == <<<<"recently">>, <<"lately">>, <<"these", "days">>, <<"this", "week">>>>
AroundWords == {"around", "near", "about"}

Intent(type, sortOrder, referenceDate, startDate, endDate, phrase) ==
  [type |-> type, sortOrder |-> sortOrder, referenceDate |-> referenceDate,
   startDate |-> startDate, endDate |-> endDate, phrase |-> phrase]

parseAfterBeforeBefore(query, dayOfWeek) ==
  LET beforeMatch == matchAfter(query, {"before"})
      afterMatch == matchAfter(query, {"after"})
      aroundMatch == matchAfter(query, AroundWords)
      timeRange == parseTimeRange(query, dayOfWeek)
  IN IF matchesPattern(query, FirstPatterns)
     THEN {Intent("first", "asc", NoDate, NoDate, NoDate,
                  extractPhrase(query, SubSeq(FirstPatterns, 1, 2)))}
     ELSE IF matchesPattern(query, LastPatterns)
     THEN {Intent("last", "desc", NoDate, NoDate, NoDate,
                  extractPhrase(query, SubSeq(LastPatterns, 1, 3)))}
     ELSE IF afterMatch # <<>>
     THEN {Intent("after", "asc", d, d, NoDate, <<"after">> \o afterMatch[1]) :
             d \in parseRelativeDate(afterMatch[1])}
     ELSE IF beforeMatch # <<>>
     THEN {Intent("before", "desc", d, NoDate, d, <<"before">> \o beforeMatch[1]) :
             d \in parseRelativeDate(beforeMatch[1])}
     ELSE IF aroundMatch # <<>>
     THEN {Intent("around", "desc", d, [d EXCEPT !.days = @ - 3], [d EXCEPT !.days = @ + 3],
                  <<"around">> \o aroundMatch[1]) :
             d \in parseRelativeDate(aroundMatch[1])}
     ELSE IF timeRange # NoRange
     THEN {Intent("between", "desc", NoDate, timeRange.startDate, timeRange.endDate,
                  timeRange.phrase)}
     ELSE IF matchesPattern(query, RecentPatterns)
     THEN {Intent("recent", "desc", NoDate, [NowDate EXCEPT !.days = -7], NowDate,
                  <<"recently">>)}
     ELSE {Intent("none", "desc", NoDate, NoDate, NoDate, NoPhrase)}

\* TemporalParser.parse: the set of intents it may return for the query.
parse(query, dayOfWeek) ==
  LET beforeMatch == matchAfter(query, {"before"})
      afterMatch == matchAfter(query, {"after"})
      aroundMatch == matchAfter(query, AroundWords)
      timeRange == parseTimeRange(query, dayOfWeek)
  IN IF matchesPattern(query, FirstPatterns)
     THEN {Intent("first", "asc", NoDate, NoDate, NoDate,
                  extractPhrase(query, SubSeq(FirstPatterns, 1, 2)))}
     ELSE IF matchesPattern(query, LastPatterns)
     THEN {Intent("last", "desc", NoDate, NoDate, NoDate,
                  extractPhrase(query, SubSeq(LastPatterns, 1, 3)))}
     ELSE IF beforeMatch # <<>>
     THEN {Intent("before", "desc", d, NoDate, d, <<"before">> \o beforeMatch[1]) :
             d \in parseRelativeDate(beforeMatch[1])}
     ELSE IF afterMatch # <<>>
     THEN {Intent("after", "asc", d, d, NoDate, <<"after">> \o afterMatch[1]) :
             d \in parseRelativeDate(afterMatch[1])}
     ELSE IF aroundMatch # <<>>
     THEN {Intent("around", "desc", d, [d EXCEPT !.days = @ - 3], [d EXCEPT !.days = @ + 3],
                  <<"around">> \o aroundMatch[1]) :
             d \in parseRelativeDate(aroundMatch[1])}
     ELSE IF timeRange # NoRange
     THEN {Intent("between", "desc", NoDate, timeRange.startDate, timeRange.endDate,
                  timeRange.phrase)}
     ELSE IF matchesPattern(query, RecentPatterns)
     THEN {Intent("recent", "desc", NoDate, [NowDate EXCEPT !.days = -7], NowDate,
                  <<"recently">>)}
     ELSE {Intent("none", "desc", NoDate, NoDate, NoDate, NoPhrase)}

InitTemporal ==
  /\ InitFormation
  /\ InitPipeline
  /\ callInput \in TemporalInputs
  /\ callOutput = NoOutput
  /\ callFrame = NoFrame

CallParse ==
  /\ callOutput = NoOutput
  /\ \E intent \in parse(callInput.query, callInput.dayOfWeek) :
       callOutput' = [fn |-> "parse", value |-> intent]
  /\ UNCHANGED <<formVars, pipeVars, callInput, callFrame>>

NextTemporal == CallParse

SpecTemporal == InitTemporal /\ [][NextTemporal]_vars

\* The rules a query matches, each taken on its own.
RulesMatched(query, dayOfWeek) ==
  <<matchesPattern(query, FirstPatterns),
    matchesPattern(query, LastPatterns),
    matchAfter(query, {"before"}) # <<>>,
    matchAfter(query, {"after"}) # <<>>,
    matchAfter(query, AroundWords) # <<>>,
    parseTimeRange(query, dayOfWeek) # NoRange,
    matchesPattern(query, RecentPatterns),
    TRUE>>

RuleTypes == <<"first", "last", "before", "after", "around", "between", "recent", "none">>

\* C18: parse returns the type of the first rule, in the order first, last,
\* before, after, around, between, recent, none, that the query matches;
\* sortOrder is asc exactly for first and after; a query containing "first
\* time" gives first/asc, and "coffee last week" gives between from now - 7
\* days to now.
C18_FirstMatchWins ==
  callOutput.fn = "parse" =>
    LET matched == RulesMatched(callInput.query, callInput.dayOfWeek)
        out == callOutput.value
    IN /\ out.type = RuleTypes[MinOf({k \in 1..8 : matched[k]})]
       /\ out.sortOrder = (IF out.type \in {"first", "after"} THEN "asc" ELSE "desc")
       /\ includes(callInput.query, <<"first", "time">>)
            => out.type = "first" /\ out.sortOrder = "asc"
       /\ callInput.query = <<"coffee", "last", "week">>
            => /\ out.type = "between"
               /\ out.startDate = [NowDate EXCEPT !.days = -7]
               /\ out.endDate = NowDate

\* A query matching both the before and the after rule was parsed.
C18_Witness ==
  /\ callOutput.fn = "parse"
  /\ callInput.query = <<"after", "before", "yesterday">>
  /\ callOutput.value.type = "before"

----------------------------------------------------------------------------
\* withRetry(fn, {maxRetries, backoffMs, onRetry}), one step per await.

MaxMaxRetries == 4   \* largest maxRetries a call is given

Backoffs == {1, 1000}

\* onRetry: not given, given and returning, given and throwing
RetryCallbacks == {"none", "returns", "throws"}

RetryInputs ==
  [fn : {"withRetry"}, maxRetries : 0..MaxMaxRetries, backoffMs : Backoffs,
   onRetry : RetryCallbacks]

\* What fn may reject with on its k-th call: an Error or some other value;
\* `message` tells the rejections of one call of withRetry apart.
Rejections(k) == {[isError |-> TRUE, message |-> k], [isError |-> FALSE, message |-> k]}

NoError == [isError |-> FALSE, message |-> NULL]

\* error instanceof Error ? error : new Error(String(error))
toError(error) == [isError |-> TRUE, message |-> error.message]

retryDelayDueAlways(attempt, maxRetries) == TRUE

\* if (attempt < maxRetries - 1)
retryDelayDue(attempt, maxRetries) == attempt < maxRetries - 1

InitRetry ==
  /\ InitFormation
  /\ InitPipeline
  /\ callInput \in RetryInputs
  /\ callOutput = NoOutput
  /\ callFrame = [fn |-> "withRetry", pc |-> "loop", attempt |-> 0, lastError |-> NoError,
                  calls |-> 0, failures |-> <<>>, sleeps |-> <<>>]

\* The loop test: call fn, or leave the loop and throw lastError.
RetryLoop ==
  /\ callFrame.fn = "withRetry"
  /\ callFrame.pc = "loop"
  /\ IF callFrame.attempt < callInput.maxRetries
     THEN /\ callFrame' = [callFrame EXCEPT !.pc = "calling", !.calls = @ + 1]
          /\ UNCHANGED callOutput
     ELSE /\ callFrame' = [callFrame EXCEPT !.pc = "done"]
          /\ callOutput' = [fn |-> "withRetry", status |-> "thrown", value |-> NULL,
                            error |-> callFrame.lastError]
  /\ UNCHANGED <<formVars, pipeVars, callInput>>

\* return await fn(): the result of call number `calls` is returned.
RetryFnResolves ==
  /\ callFrame.fn = "withRetry"
  /\ callFrame.pc = "calling"
  /\ callFrame' = [callFrame EXCEPT !.pc = "done"]
  /\ callOutput' = [fn |-> "withRetry", status |-> "returned", value |-> callFrame.calls,
                    error |-> NoError]
  /\ UNCHANGED <<formVars, pipeVars, callInput>>

\* fn rejects: the catch block.
RetryFnRejects ==
  /\ callFrame.fn = "withRetry"
  /\ callFrame.pc = "calling"
  /\ \E error \in Rejections(callFrame.calls) :
       LET caught == [callFrame EXCEPT !.lastError = toError(error),
                                       !.failures = Append(@, error)]
       IN IF retryDelayDue(callFrame.attempt, callInput.maxRetries)
          THEN IF callInput.onRetry = "throws"
               THEN /\ callFrame' = [caught EXCEPT !.pc = "done"]
                    /\ callOutput' = [fn |-> "withRetry", status |-> "thrown", value |-> NULL,
                                      error |-> [isError |-> TRUE, message |-> 0]]
               ELSE /\ callFrame' = [caught EXCEPT !.pc = "sleeping",
                                       !.sleeps = Append(@, callInput.backoffMs * 2^callFrame.attempt)]
                    /\ UNCHANGED callOutput
          ELSE /\ callFrame' = [caught EXCEPT !.pc = "loop", !.attempt = @ + 1]
               /\ UNCHANGED callOutput
  /\ UNCHANGED <<formVars, pipeVars, callInput>>

\* The timer of sleep(delay) fires.
RetrySleepEnds ==
  /\ callFrame.fn = "withRetry"
  /\ callFrame.pc = "sleeping"
  /\ callFrame' = [callFrame EXCEPT !.pc = "loop", !.attempt = @ + 1]
  /\ UNCHANGED <<formVars, pipeVars, callInput, callOutput>>

NextRetry ==
  \/ RetryLoop
  \/ RetryFnResolves
  \/ RetryFnRejects
  \/ RetrySleepEnds

\* Every promise awaited settles: fn resolves or rejects, the timer fires.
SpecRetry == InitRetry /\ [][NextRetry]_vars /\ WF_vars(NextRetry)

RetryBounded ==
  (callFrame.fn = "withRetry" /\ callInput.maxRetries >= 1 /\ callInput.onRetry # "throws") =>
    LET n == callInput.maxRetries
        f == callFrame
    IN /\ f.calls <= n
       /\ Len(f.sleeps) <= n - 1
       /\ \A k \in 1..Len(f.sleeps) : f.sleeps[k] = callInput.backoffMs * 2^(k - 1)
       /\ Len(f.sleeps) = (IF Len(f.failures) = n THEN n - 1
                           ELSE IF f.pc = "calling" \/ callOutput.fn = "withRetry"
                                THEN f.calls - 1 ELSE Len(f.failures))
       /\ (callOutput.fn = "withRetry" /\ callOutput.status = "returned")
            => /\ Len(f.failures) = f.calls - 1
               /\ callOutput.value = f.calls
       /\ (callOutput.fn = "withRetry" /\ callOutput.status = "thrown")
            => /\ f.calls = n
               /\ Len(f.failures) = n
               /\ callOutput.error = toError(f.failures[n])

\* C19: withRetry with maxRetries n >= 1 and no onRetry that throws finishes;
\* it calls fn at most n times, returns the result of the first call that
\* succeeds and calls nothing afterwards, sleeps backoffMs * 2^k after failure
\* number k (k = 0..n-2) and not after failure n-1, and throws the error of the
\* last failure after n failures.
C19_RetryTerminates ==
  /\ []RetryBounded
  /\ [][callOutput.fn = "withRetry" => UNCHANGED callFrame]_vars
  /\ <>(callFrame.fn = "withRetry" => callOutput.fn = "withRetry")

\* n failures of which the last, a rejection with a non-Error, is thrown after
\* n - 1 sleeps.
C19_Witness ==
  /\ callOutput.fn = "withRetry"
  /\ callInput.maxRetries = 3
  /\ callInput.onRetry = "none"
  /\ callOutput.status = "thrown"
  /\ callFrame.sleeps = <<1000, 2000>>
  /\ ~callFrame.failures[3].isError

----------------------------------------------------------------------------
\* Context inference run again: the reprocess-context script calls
\* inferAndStoreContext for every memory, and may itself be run again.

MaxInferenceRuns == 2   \* calls of inferAndStoreContext in one behaviour

\* The tags and people the user gave the memories before any inference.
UserTagTables ==
  {ConcatAll([m \in 1..Cardinality(PipelineIds) |->
      LET texts == SelectSeq(TagCollation, LAMBDA t : t \in chosen[m])
      IN [i \in 1..Len(texts) |->
            [memoryId |-> m, tag |-> texts[i], confidence |-> NULL, origin |-> "user"]]]) :
     chosen \in [PipelineIds -> SUBSET Range(TagCollation)]}

UserPeopleTables ==
  {ConcatAll([m \in 1..Cardinality(PipelineIds) |->
      LET texts == SelectSeq(PersonCollation, LAMBDA t : t \in chosen[m])
      IN [i \in 1..Len(texts) |->
            [memoryId |-> m, personName |-> texts[i], confidence |-> NULL, confirmed |-> TRUE]]]) :
     chosen \in [PipelineIds -> SUBSET Range(PersonCollation)]}

\* Every memory is ingested and embedded; no call of the pipeline is running.
InitInference ==
  /\ InitFormation
  /\ processingStatus = [id \in PipelineIds |-> "completed"]
  /\ memoryEmbeddings = PipelineIds
  /\ memoryContext = <<>>
  /\ memoryTags \in UserTagTables
  /\ memoryPeople \in UserPeopleTables
  /\ ppc = [id \in PipelineIds |-> "idle"]
  /\ metadata = [id \in PipelineIds |-> NoMetadata]
  /\ entry = [id \in PipelineIds |-> "none"]
  /\ raised = [id \in PipelineIds |-> "none"]
  /\ returned = {}
  /\ background = [id \in PipelineIds |-> NoBackground]
  /\ callInput = [fn |-> "reprocessContext"]
  /\ callOutput = NoOutput
  /\ callFrame = [fn |-> "reprocessContext", runs |-> <<>>, tagsAfter |-> <<>>,
                  peopleAfter |-> <<>>]

\* One turn of the script's loop: inferAndStoreContext(m.id, m.userId).  The
\* frame keeps the memory of each call and its tag and person rows afterwards.
ReprocessContext(id) ==
  /\ callFrame.fn = "reprocessContext"
  /\ Len(callFrame.runs) < MaxInferenceRuns
  /\ \E similarIds \in similarIdsOf(memoryEmbeddings, id) :
       \E db \in {inferAndStoreContext(PStore, id, similarIds)} :
         /\ SetPStore(db)
         /\ callFrame' = [callFrame EXCEPT
              !.runs = Append(@, id),
              !.tagsAfter = Append(@, SelectSeq(db.memoryTags, LAMBDA r : r.memoryId = id)),
              !.peopleAfter = Append(@, SelectSeq(db.memoryPeople, LAMBDA r : r.memoryId = id))]
  /\ UNCHANGED <<formVars, ppc, metadata, entry, raised, returned, background,
                 callInput, callOutput>>

NextInference == \E id \in PipelineIds : ReprocessContext(id)

SpecInference == InitInference /\ [][NextInference]_vars

\* C20: a second run of inferAndStoreContext for the same memory, nothing else
\* having run in between, leaves the memory's tag rows and person rows as the
\* first run left them.
C20_RerunLeavesSameRows ==
  (/\ callFrame.fn = "reprocessContext"
   /\ Len(callFrame.runs) = 2
   /\ callFrame.runs[1] = callFrame.runs[2])
  => /\ callFrame.tagsAfter[2] = callFrame.tagsAfter[1]
     /\ callFrame.peopleAfter[2] = callFrame.peopleAfter[1]

\* C21: a call of inferAndStoreContext keeps every tag row and person row that
\* existed before it, unchanged, and every row it adds is a tag of origin ai or
\* a person with confirmed = false.
C21_InferenceOnlyAddsUnconfirmed ==
  [][(callFrame.fn = "reprocessContext" /\ callFrame'.runs # callFrame.runs) =>
       /\ Len(memoryTags') >= Len(memoryTags)
       /\ SubSeq(memoryTags', 1, Len(memoryTags)) = memoryTags
       /\ \A i \in (Len(memoryTags) + 1)..Len(memoryTags') : memoryTags'[i].origin = "ai"
       /\ Len(memoryPeople') >= Len(memoryPeople)
       /\ SubSeq(memoryPeople', 1, Len(memoryPeople)) = memoryPeople
       /\ \A i \in (Len(memoryPeople) + 1)..Len(memoryPeople') :
            ~memoryPeople'[i].confirmed]_vars

\* A memory with a user tag and a confirmed person has been given an inferred
\* tag and an inferred person.
C21_Witness ==
  /\ callFrame.fn = "reprocessContext"
  /\ \E id \in PipelineIds :
       /\ id \in Range(callFrame.runs)
       /\ \E i, j \in 1..Len(memoryTags) :
            /\ memoryTags[i].memoryId = id /\ memoryTags[i].origin = "user"
            /\ memoryTags[j].memoryId = id /\ memoryTags[j].origin = "ai"
       /\ \E i, j \in 1..Len(memoryPeople) :
            /\ memoryPeople[i].memoryId = id /\ memoryPeople[i].confirmed
            /\ memoryPeople[j].memoryId = id /\ ~memoryPeople[j].confirmed

----------------------------------------------------------------------------
\* Overlapping calls of processMemory and retryFailedMemory for one memory, one
\* step per await that reads or writes the memory.  A step that fails is taken
\* together with the catch block's write, which is the only thing the failure
\* does to the store.

MaxCalls == 3   \* calls started in one behaviour

Callers == {"a", "b"}   \* the requests being served at the same time

ContendedMemory == 1

ConcurrentAdvance(c, stage) ==
  /\ callFrame' = [callFrame EXCEPT !.pc[c] = stage]
  /\ UNCHANGED <<formVars, ppc, metadata, entry, raised, returned, callInput, callOutput>>

\* The call raises without having written anything.
ConcurrentRaise(c) ==
  /\ ConcurrentAdvance(c, "idle")
  /\ UNCHANGED <<processingStatus, memoryEmbeddings, memoryContext, memoryTags,
                 memoryPeople, background>>

\* catch (error): the memory is marked failed and the ProcessingError is raised.
ConcurrentFailed(c) ==
  /\ SetPStore(processMemoryCatch(PStore, ContendedMemory))
  /\ ConcurrentAdvance(c, "idle")
  /\ UNCHANGED background

InitPipelineConcurrent ==
  /\ InitFormation
  /\ processingStatus = [id \in PipelineIds |->
                           IF id = ContendedMemory THEN "pending" ELSE "absent"]
  /\ memoryEmbeddings = {}
  /\ memoryContext = <<>>
  /\ memoryTags = <<>>
  /\ memoryPeople = <<>>
  /\ ppc = [id \in PipelineIds |-> "idle"]
  /\ metadata = [id \in PipelineIds |-> NoMetadata]
  /\ entry = [id \in PipelineIds |-> "none"]
  /\ raised = [id \in PipelineIds |-> "none"]
  /\ returned = {}
  /\ background = [id \in PipelineIds |-> NoBackground]
  /\ callInput = [fn |-> "concurrentCalls"]
  /\ callOutput = NoOutput
  /\ callFrame = [fn |-> "concurrentCalls", pc |-> [c \in Callers |-> "idle"], calls |-> 0]

\* processMemory is called: findById, and the test that the memory is pending.
ConcurrentProcessMemory(c) ==
  /\ callFrame.fn = "concurrentCalls"
  /\ callFrame.pc[c] = "idle"
  /\ callFrame.calls < MaxCalls
  /\ callFrame' = [callFrame EXCEPT
       !.calls = @ + 1,
       !.pc[c] = IF processingStatus[ContendedMemory] = "pending"
                 THEN "markProcessing" ELSE "idle"]
  /\ UNCHANGED <<formVars, pipeVars, callInput, callOutput>>

\* retryFailedMemory is called: findById, and the test that the memory is failed.
ConcurrentRetryFailedMemory(c) ==
  /\ callFrame.fn = "concurrentCalls"
  /\ callFrame.pc[c] = "idle"
  /\ callFrame.calls < MaxCalls
  /\ callFrame' = [callFrame EXCEPT
       !.calls = @ + 1,
       !.pc[c] = IF processingStatus[ContendedMemory] = "failed"
                 THEN "resetPending" ELSE "idle"]
  /\ UNCHANGED <<formVars, pipeVars, callInput, callOutput>>

\* retryFailedMemory marks the memory pending.
ConcurrentResetPending(c) ==
  /\ callFrame.fn = "concurrentCalls"
  /\ callFrame.pc[c] = "resetPending"
  /\ \E fails \in BOOLEAN :
       IF fails THEN ConcurrentRaise(c)
       ELSE /\ processingStatus' = [processingStatus EXCEPT ![ContendedMemory] = "pending"]
            /\ ConcurrentAdvance(c, "findById")
            /\ UNCHANGED <<memoryEmbeddings, memoryContext, memoryTags, memoryPeople,
                           background>>

\* ... and calls processMemory, which reads the memory again.
ConcurrentFindById(c) ==
  /\ callFrame.fn = "concurrentCalls"
  /\ callFrame.pc[c] = "findById"
  /\ IF processingStatus[ContendedMemory] = "pending"
     THEN ConcurrentAdvance(c, "markProcessing")
     ELSE ConcurrentAdvance(c, "idle")
  /\ UNCHANGED <<processingStatus, memoryEmbeddings, memoryContext, memoryTags,
                 memoryPeople, background>>

\* EXIF capture date, then the memory is marked processing.
ConcurrentMarkProcessing(c) ==
  /\ callFrame.fn = "concurrentCalls"
  /\ callFrame.pc[c] = "markProcessing"
  /\ \E fails \in BOOLEAN :
       IF fails THEN ConcurrentFailed(c)
       ELSE /\ processingStatus' = [processingStatus EXCEPT ![ContendedMemory] = "processing"]
            /\ ConcurrentAdvance(c, "extractText")
            /\ UNCHANGED <<memoryEmbeddings, memoryContext, memoryTags, memoryPeople,
                           background>>

\* extractText, normalize, generateEmbedding: none touches the store.
ConcurrentExtractAndEmbed(c) ==
  /\ callFrame.fn = "concurrentCalls"
  /\ callFrame.pc[c] = "extractText"
  /\ \E fails \in BOOLEAN :
       IF fails THEN ConcurrentFailed(c)
       ELSE /\ ConcurrentAdvance(c, "persist")
            /\ UNCHANGED <<processingStatus, memoryEmbeddings, memoryContext, memoryTags,
                           memoryPeople, background>>

\* The transaction; on COMMIT the fire-and-forget promises and the return.
ConcurrentPersist(c) ==
  /\ callFrame.fn = "concurrentCalls"
  /\ callFrame.pc[c] = "persist"
  /\ \E ops \in {persistOps(ContendedMemory, NoMetadata)} :
     \E failAt \in 0..(Len(ops) + 1) :
     \E r \in {withTransaction(PStore, ops, failAt)} :
       IF r.ok
       THEN /\ SetPStore(r.db)
            /\ background' = [background EXCEPT ![ContendedMemory] =
                                [formation |-> "running", inference |-> "running"]]
            /\ ConcurrentAdvance(c, "idle")
       ELSE ConcurrentFailed(c)

NextPipelineConcurrent ==
  \/ \E c \in Callers :
       \/ ConcurrentProcessMemory(c)
       \/ ConcurrentRetryFailedMemory(c)
       \/ ConcurrentResetPending(c)
       \/ ConcurrentFindById(c)
       \/ ConcurrentMarkProcessing(c)
       \/ ConcurrentExtractAndEmbed(c)
       \/ ConcurrentPersist(c)
  \/ BackgroundFormation(ContendedMemory)
  \/ BackgroundInference(ContendedMemory)

SpecPipelineConcurrent == InitPipelineConcurrent /\ [][NextPipelineConcurrent]_vars

StatusTransitions ==
  {<<"pending", "processing">>, <<"processing", "completed">>,
   <<"processing", "failed">>, <<"failed", "pending">>}

\* C22: whatever the interleaving of processMemory and retryFailedMemory calls
\* on one memory, its status changes only from pending to processing, from
\* processing to completed or failed, and from failed to pending; a completed
\* memory keeps its status.
C22_StatusTransitions ==
  [][processingStatus'[ContendedMemory] # processingStatus[ContendedMemory] =>
       <<processingStatus[ContendedMemory], processingStatus'[ContendedMemory]>>
         \in StatusTransitions]_vars

----------------------------------------------------------------------------
\* C23: the event selectEventToResurf returns is one of the 3 highest-scored
\* eligible events, and it scores below the highest-scored one only if there
\* are 3 such candidates and their start times lie within 24 hours of each
\* other.
C23_GuardrailOnlyInWindow ==
  (callOutput.fn = "selectEventToResurf" /\ callOutput.eventId # 0) =>
    LET table == callInput.table
        eligibleEvents == SelectSeq(callOutput.listed,
                            LAMBDA id : startTimeOf(table[id]) < NowHours - 7 * 24)
        top3 == Take(sortByScore(table, eligibleEvents), 3)
        starts == {startTimeOf(table[id]) : id \in Range(top3)}
    IN /\ callOutput.eventId \in Range(top3)
       /\ resurfaceScore(table[callOutput.eventId]) < resurfaceScore(table[top3[1]])
            => /\ Len(top3) = 3
               /\ MaxOf(starts) - MinOf(starts) <= 24

----------------------------------------------------------------------------
\* The parser's dates on the calendar.  A calendar date is [year, month, day];
\* "now" is a day of year 1, a leap year between two common years.  The time of
\* day is that of "now" unless the date was built at midnight.

MonthLengths == <<31, 28, 31, 30, 31, 30, 31, 31, 30, 31, 30, 31>>

CalendarYears == 0..2

isLeapYear(year) == year = 1

daysInMonth(year, month) ==
  IF month = 2 /\ isLeapYear(year) THEN 29 ELSE MonthLengths[month]

daysInYear(year) == IF isLeapYear(year) THEN 366 ELSE 365

\* Day number of the first of the month; month 0 is December of the year before
\* and month 13 January of the year after, as in new Date(year, month, 1).
firstOfMonth(year, month) ==
  LET y == IF month < 1 THEN year - 1 ELSE IF month > 12 THEN year + 1 ELSE year
      m == IF month < 1 THEN month + 12 ELSE IF month > 12 THEN month - 12 ELSE month
  IN SumOf([k \in 1..y |-> daysInYear(k - 1)])
     + SumOf([k \in 1..(m - 1) |-> daysInMonth(y, k)])

\* Day number of a calendar date whose day may lie outside its month: the
\* overflow runs into the neighbouring month, as setMonth and setDate do.
dayNumber(date) == firstOfMonth(date.year, date.month) + date.day - 1

calendarDate(number) ==
  LET year == CHOOSE y \in CalendarYears :
                firstOfMonth(y, 1) <= number /\ number < firstOfMonth(y, 13)
      month == CHOOSE m \in 1..12 :
                 firstOfMonth(year, m) <= number /\ number < firstOfMonth(year, m + 1)
  IN [year |-> year, month |-> month, day |-> number - firstOfMonth(year, month) + 1]

\* The instant a date of the parser stands for when "now" is `today`:
\* setFullYear, setMonth, setDate(n), setDate(getDate() + k) applied in that
\* order.  The result is twice the day number, plus 1 unless the time is
\* midnight; text parsed by new Date(dateStr) is taken to be day 0.
resolveDate(date, today) ==
  IF date.parsed # <<>> THEN 2 * date.days + 1
  ELSE LET afterYear == calendarDate(dayNumber([today EXCEPT !.year = @ + date.years]))
           afterMonth == calendarDate(dayNumber([afterYear EXCEPT !.month = @ + date.months]))
           afterDay == IF date.dayOfMonth = NULL THEN dayNumber(afterMonth)
                       ELSE dayNumber([afterMonth EXCEPT !.day = date.dayOfMonth])
       IN 2 * (afterDay + date.days) + (IF date.midnight THEN 0 ELSE 1)

\* getDay(): day 0 of the calendar is taken to be a Sunday.
getDay(today) == dayNumber(today) % 7

Todays ==
  {date \in [year : {1}, month : 1..12, day : 1..31] :
     date.day <= daysInMonth(date.year, date.month)}

CalendarQueries ==
  {<<"last", "month">>, <<"this", "month">>, <<"last", "week">>, <<"this", "week">>,
   <<"last", "3", "days">>, <<"recently">>, <<"around", "yesterday">>,
   <<"around", "last", "month">>, <<"around", "last", "year">>, <<"around", "3">>,
   <<"before", "last", "month">>, <<"coffee">>}

InitTemporalCalendar ==
  /\ InitFormation
  /\ InitPipeline
  /\ \E query \in CalendarQueries : \E today \in Todays :
       callInput = [fn |-> "parse", query |-> query, dayOfWeek |-> getDay(today),
                    today |-> today]
  /\ callOutput = NoOutput
  /\ callFrame = NoFrame

SpecTemporalCalendar == InitTemporalCalendar /\ [][NextTemporal]_vars

\* C29: whenever parse returns both a startDate and an endDate, the startDate
\* is not after the endDate, whatever the query and the current date.
C29_StartNotAfterEnd ==
  (/\ callOutput.fn = "parse"
   /\ callOutput.value.startDate # NoDate
   /\ callOutput.value.endDate # NoDate)
  => resolveDate(callOutput.value.startDate, callInput.today)
       <= resolveDate(callOutput.value.endDate, callInput.today)

----------------------------------------------------------------------------
\* The anniversary term alone, over event ages in whole days.

MaxAgeDays == 1100

InitAnniversary ==
  /\ InitFormation /\ InitPipeline
  /\ callInput \in [fn : {"anniversaryBonus"}, daysSince : 0..MaxAgeDays]
  /\ callOutput = NoOutput
  /\ callFrame = NoFrame

CallAnniversaryBonus ==
  /\ callOutput = NoOutput
  /\ callInput.fn = "anniversaryBonus"
  /\ callOutput' = [fn |-> "anniversaryBonus", value |-> anniversaryBonus(callInput.daysSince)]
  /\ UNCHANGED <<formVars, pipeVars, callInput, callFrame>>

NextAnniversary ==
  CallAnniversaryBonus

SpecAnniversary == InitAnniversary /\ [][NextAnniversary]_vars

\* C26: for an age of d whole days the anniversary bonus is 120 if d >= 365 is
\* a multiple of 365, else 100 if d >= 365 is within 3 days of a multiple
\* 365k, k >= 1, else 50 if d >= 30 is a multiple of 30, else 25 if d >= 14 is
\* a multiple of 7, else 0.
C26_AnniversaryTiers ==
  callOutput.fn = "anniversaryBonus" =>
    LET d == callInput.daysSince
        nearYear == \E k \in 1..(MaxAgeDays \div 365 + 1) : Abs(d - 365 * k) <= 3
    IN callOutput.value =
         (IF d >= 365 /\ d % 365 = 0 THEN 120
          ELSE IF d >= 365 /\ nearYear THEN 100
          ELSE IF d >= 30 /\ d % 30 = 0 THEN 50
          ELSE IF d >= 14 /\ d % 7 = 0 THEN 25
          ELSE 0)

----------------------------------------------------------------------------
\* Event search.  Instants are those of resolveDate (half days); confidences are
\* hundredths; cosine distances are hundredths; coordinates are metres along one
\* meridian, as in the clustering engine; relevance scores are in units of
\* 1 / RelevanceOne, the common denominator of the base score and the boosts.

RelevanceOne == 306600

\* "now" of the search: 15 March of year 1.
SearchToday == [year |-> 1, month |-> 3, day |-> 15]

NowInstant == 2 * dayNumber(SearchToday) + 1

SearchEventIds == {1, 2, 3}

\* Rows of events joined with event_embeddings: owner, start time as an age in
\* days, confidence, centroid, cosine distance of the embedding to the query's.
SearchEventProfiles ==
  {[userId |-> "u1", ageDays |-> 1, confidenceScore |-> 90, locationLat |-> 500, locationLng |-> 7, distance |-> 60],
   [userId |-> "u1", ageDays |-> 5, confidenceScore |-> 30, locationLat |-> 5000, locationLng |-> 7, distance |-> 20],
   [userId |-> "u1", ageDays |-> 40, confidenceScore |-> 90, locationLat |-> NULL, locationLng |-> NULL, distance |-> 60],
   [userId |-> "u1", ageDays |-> 5, confidenceScore |-> 90, locationLat |-> 0, locationLng |-> 7, distance |-> 60],
   [userId |-> "u2", ageDays |-> 1, confidenceScore |-> 90, locationLat |-> 500, locationLng |-> 7, distance |-> 20]}

SearchTables == [SearchEventIds -> SearchEventProfiles]

NoFilters ==
  [startTimeAfter |-> NULL, startTimeBefore |-> NULL, latitude |-> NULL,
   longitude |-> NULL, radiusKm |-> NULL, minConfidence |-> NULL]

\* The filters a caller may send.
SearchFilterSets ==
  {NoFilters,
   [NoFilters EXCEPT !.startTimeAfter = NowInstant - 2 * 2],
   [NoFilters EXCEPT !.startTimeBefore = NowInstant - 2 * 3],
   [NoFilters EXCEPT !.startTimeAfter = NowInstant - 2 * 10, !.startTimeBefore = NowInstant - 2 * 2],
   [NoFilters EXCEPT !.minConfidence = 50],
   [NoFilters EXCEPT !.latitude = 500, !.longitude = 7, !.radiusKm = 1],
   [NoFilters EXCEPT !.latitude = 0, !.longitude = 7, !.radiusKm = 1]}

SearchQueries ==
  {<<"coffee">>, <<"first", "time", "coffee">>, <<"last", "time", "coffee">>,
   <<"coffee", "recently">>, <<"coffee", "last", "week">>,
   <<"coffee", "around", "yesterday">>, <<"coffee", "after", "yesterday">>,
   <<"coffee", "before", "yesterday">>}

SearchLimits == {1, 2}

SearchInputs ==
  [fn : {"search"}, query : SearchQueries, limit : SearchLimits,
   filters : SearchFilterSets, userId : {"u1"}, table : SearchTables]

startTimeOfEvent(row) == NowInstant - 2 * row.ageDays

\* eventEmbeddingRepository.findSimilar: the orders ORDER BY distance LIMIT n
\* may return for the user's events.
findSimilarEvents(table, limit, userId) ==
  LET ids == {id \in DOMAIN table : table[id].userId = userId}
  IN {Take(q, limit) : q \in OrderedDesc(ids, [id \in ids |-> 0 - table[id].distance])}

matchesFilters(event, filters) ==
  IF filters.startTimeAfter # NULL /\ startTimeOfEvent(event) < filters.startTimeAfter THEN FALSE
  ELSE IF filters.startTimeBefore # NULL /\ startTimeOfEvent(event) > filters.startTimeBefore THEN FALSE
  ELSE IF Truthy(filters.minConfidence) /\ event.confidenceScore < filters.minConfidence THEN FALSE
  ELSE IF Truthy(filters.latitude) /\ Truthy(filters.longitude) /\ Truthy(filters.radiusKm)
       THEN IF ~Truthy(event.locationLat) \/ ~Truthy(event.locationLng) THEN FALSE
            ELSE calculateDistance(filters.latitude, filters.longitude,
                                   event.locationLat, event.locationLng)
                   <= filters.radiusKm * 1000
  ELSE TRUE

\* Math.min / Math.max of two numbers.
Minimum(a, b) == IF a < b THEN a ELSE b
Maximum(a, b) == IF a > b THEN a ELSE b

\* referenceInstant: the intent's reference date resolved, NULL when it has none.
applyTemporalBoost(event, type, referenceInstant, baseScore) ==
  IF type = "none" THEN baseScore
  ELSE IF type = "first"
  THEN Minimum(RelevanceOne,
               baseScore + Minimum(61320, (NowInstant - startTimeOfEvent(event)) * 84))
  ELSE IF type = "last"
  THEN Minimum(RelevanceOne,
               baseScore + Maximum(0, 61320 - (NowInstant - startTimeOfEvent(event)) * 1022))
  ELSE IF type = "around" /\ referenceInstant # NULL
  THEN Minimum(RelevanceOne,
               baseScore + Maximum(0, 91980 - Abs(startTimeOfEvent(event) - referenceInstant) * 6570))
  ELSE baseScore

\* Array.prototype.sort with the comparator the type selects; the sort is stable.
sortByTemporalIntentRecentAscending(entries, type) ==
  LET n == Len(entries)
      key == [i \in 1..n |->
                IF type \in {"first", "recent"} THEN entries[i].startTime
                ELSE IF type = "last" THEN 0 - entries[i].startTime
                ELSE 0 - entries[i].relevanceScore]
      perm == CHOOSE q \in [1..n -> 1..n] :
                /\ \A i, j \in 1..n : i # j => q[i] # q[j]
                /\ \A i, j \in 1..n : i < j =>
                     \/ key[q[i]] < key[q[j]]
                     \/ (key[q[i]] = key[q[j]] /\ q[i] < q[j])
  IN [i \in 1..n |-> entries[perm[i]]]

sortByTemporalIntent(entries, type) ==
  LET n == Len(entries)
      key == [i \in 1..n |->
                IF type = "first" THEN entries[i].startTime
                ELSE IF type \in {"last", "recent"} THEN 0 - entries[i].startTime
                ELSE 0 - entries[i].relevanceScore]
      perm == CHOOSE q \in [1..n -> 1..n] :
                /\ \A i, j \in 1..n : i # j => q[i] # q[j]
                /\ \A i, j \in 1..n : i < j =>
                     \/ key[q[i]] < key[q[j]]
                     \/ (key[q[i]] = key[q[j]] /\ q[i] < q[j])
  IN [i \in 1..n |-> entries[perm[i]]]

\* The date when the intent has it, NULL for undefined.
instantOf(date) == IF date = NoDate THEN NULL ELSE resolveDate(date, SearchToday)

\* EventRetrievalService.search for the parsed intent's type and dates, one
\* order of the similar events and the set of candidates whose rows and
\* memories could be fetched (a fetch that raises is logged and the candidate
\* skipped).
search(in, type, startInstant, endInstant, referenceInstant, similarEvents, fetched) ==
  LET enhancedFilters ==
        [in.filters EXCEPT
           !.startTimeAfter = IF startInstant # NULL THEN startInstant ELSE @,
           !.startTimeBefore = IF endInstant # NULL THEN endInstant ELSE @]
      kept == SelectSeq(similarEvents,
                        LAMBDA id : id \in fetched /\ matchesFilters(in.table[id], enhancedFilters))
      eventsWithMemories ==
        [i \in 1..Len(kept) |->
           [eventId |-> kept[i],
            startTime |-> startTimeOfEvent(in.table[kept[i]]),
            relevanceScore |->
              applyTemporalBoost(in.table[kept[i]], type, referenceInstant,
                                 Maximum(0, RelevanceOne - 1533 * in.table[kept[i]].distance))]]
  IN Take(sortByTemporalIntent(eventsWithMemories, type), in.limit)

InitEventSearch ==
  /\ InitFormation
  /\ InitPipeline
  /\ callInput \in SearchInputs
  /\ callOutput = NoOutput
  /\ callFrame = NoFrame

CallSearch ==
  /\ callOutput = NoOutput
  /\ callInput.fn = "search"
  /\ \E intent \in parse(callInput.query, getDay(SearchToday)) :
     \E startInstant \in {instantOf(intent.startDate)} :
     \E endInstant \in {instantOf(intent.endDate)} :
     \E referenceInstant \in {instantOf(intent.referenceDate)} :
     \E similarEvents \in findSimilarEvents(callInput.table, callInput.limit * 3, callInput.userId) :
     \E fetched \in SUBSET Range(similarEvents) :
       callOutput' = [fn |-> "search", type |-> intent.type,
                      events |-> search(callInput, intent.type, startInstant, endInstant,
                                        referenceInstant, similarEvents, fetched)]
  /\ UNCHANGED <<formVars, pipeVars, callInput, callFrame>>

NextEventSearch ==
  CallSearch

SpecEventSearch == InitEventSearch /\ [][NextEventSearch]_vars

\* C24: no event returned by event search starts outside the caller's
\* [startTimeAfter, startTimeBefore] range, has a confidence below the caller's
\* minConfidence, or has a centroid farther than the caller's radius from the
\* caller's point, whatever the query text is.
C24_CallerFiltersHold ==
  callOutput.fn = "search" =>
    \A i \in 1..Len(callOutput.events) :
      LET event == callInput.table[callOutput.events[i].eventId]
          filters == callInput.filters
      IN /\ filters.startTimeAfter # NULL => startTimeOfEvent(event) >= filters.startTimeAfter
         /\ filters.startTimeBefore # NULL => startTimeOfEvent(event) <= filters.startTimeBefore
         /\ filters.minConfidence # NULL => event.confidenceScore >= filters.minConfidence
         /\ (filters.latitude # NULL /\ filters.longitude # NULL /\ filters.radiusKm # NULL)
              => /\ event.locationLat # NULL /\ event.locationLng # NULL
                 /\ calculateDistance(filters.latitude, filters.longitude,
                                      event.locationLat, event.locationLng)
                      <= filters.radiusKm * 1000

\* C25: the list returned has at most `limit` entries; it is ordered by start
\* time ascending for type first, by start time descending for types last and
\* recent, and by boosted relevance descending for every other type.
C25_LimitAndOrder ==
  callOutput.fn = "search" =>
    LET out == callOutput.events
    IN /\ Len(out) <= callInput.limit
       /\ \A i, j \in 1..Len(out) : i < j =>
            IF callOutput.type = "first" THEN out[i].startTime <= out[j].startTime
            ELSE IF callOutput.type \in {"last", "recent"} THEN out[i].startTime >= out[j].startTime
            ELSE out[i].relevanceScore >= out[j].relevanceScore

\* A "recently" search has returned two events, the later one first, although
\* the earlier one has the higher relevance.
C25_Witness ==
  /\ callOutput.fn = "search"
  /\ callOutput.type = "recent"
  /\ Len(callOutput.events) = 2
  /\ callOutput.events[1].startTime > callOutput.events[2].startTime
  /\ callOutput.events[1].relevanceScore < callOutput.events[2].relevanceScore

----------------------------------------------------------------------------
\* Relationship types of the links formation writes.

PrimaryLinks(eventId) ==
  {l \in LinksOfEvent(links, eventId) : l.relationshipType = "primary"}

OnePrimaryOthersSupporting ==
  \A eventId \in DOMAIN events :
    /\ Cardinality(PrimaryLinks(eventId)) = 1
    /\ \A l \in LinksOfEvent(links, eventId) :
         l.relationshipType \in {"primary", "supporting"}

\* An event that appears is the work of a run in createNewEvent, and its
\* primary link is to that run's memory; links never change their type.
PrimaryIsTrigger ==
  /\ \A eventId \in DOMAIN events' \ DOMAIN events :
       \E m \in DOMAIN memories :
         /\ fpc[m] = "create"
         /\ lastResult'.memoryId = m /\ lastResult'.outcome = "created"
         /\ \A l \in LinksOfEvent(links', eventId) :
              l.relationshipType = "primary" <=> l.memoryId = m
  /\ \A l \in links : l.eventId \in DOMAIN events => l \in links'

\* C27: after any sequence of formation runs every event has exactly one primary
\* link, to the memory whose run created it, every other link of the event is
\* supporting, and no link is of type context.
C27_OnePrimaryLink ==
  []OnePrimaryOthersSupporting /\ [][PrimaryIsTrigger]_vars

\* An event has its primary link and a supporting link attached by a later run.
C27_Witness ==
  \E eventId \in DOMAIN events :
    \E m \in DOMAIN memories :
      /\ lastResult.memoryId = m /\ lastResult.outcome = "attached"
      /\ [memoryId |-> m, eventId |-> eventId, relationshipType |-> "supporting"] \in links
      /\ Cardinality(PrimaryLinks(eventId)) = 1
      /\ Cardinality(LinksOfEvent(links, eventId)) >= 2

----------------------------------------------------------------------------
\* Event synthesis called on its own: the memories and what each attempt of
\* the text-generation call does (it fails, or it answers with the confidence
\* it reports, NULL when the answer holds none).

MAX_RETRIES == 3

SynthesisMemoryLists == {<<>>, <<1>>, <<1, 2>>, <<1, 2, 3>>}

AttemptOutcomes ==
  {[failed |-> TRUE, reported |-> NULL]}
    \cup {[failed |-> FALSE, reported |-> r] : r \in {NULL, 0, 50, 100, 150}}

SynthesisInputs ==
  [fn : {"synthesizeEvent"}, memories : SynthesisMemoryLists,
   attempts : [1..MAX_RETRIES -> AttemptOutcomes]]

\* withRetry around the call: the first attempt that answers ends the loop; when
\* every attempt fails the last error is thrown.
llmOutcome(attempts) ==
  LET answered == {k \in 1..Len(attempts) : ~attempts[k].failed}
  IN IF answered = {} THEN [failed |-> TRUE, reported |-> NULL]
     ELSE [failed |-> FALSE, reported |-> attempts[MinOf(answered)].reported]

InitSynthesis ==
  /\ InitFormation
  /\ InitPipeline
  /\ callInput \in SynthesisInputs
  /\ callOutput = NoOutput
  /\ callFrame = NoFrame

CallSynthesizeEvent ==
  /\ callOutput = NoOutput
  /\ callInput.fn = "synthesizeEvent"
  /\ callOutput' = [fn |-> "synthesizeEvent",
                    value |-> synthesizeEvent(callInput.memories, llmOutcome(callInput.attempts))]
  /\ UNCHANGED <<formVars, pipeVars, callInput, callFrame>>

NextSynthesis ==
  CallSynthesizeEvent

SpecSynthesis == InitSynthesis /\ [][NextSynthesis]_vars

\* C28: for a non-empty list of N memories, when the text-generation call fails
\* on every attempt, synthesizeEvent does not raise and returns the fallback:
\* confidence 0.3 and the summary "N memory/memories from this time period.".
C28_FallbackNeverRaises ==
  (/\ callOutput.fn = "synthesizeEvent"
   /\ Len(callInput.memories) > 0
   /\ \A k \in 1..MAX_RETRIES : callInput.attempts[k].failed)
  => /\ ~callOutput.value.raised
     /\ callOutput.value.confidenceScore = 30
     /\ callOutput.value.summary =
          <<Len(callInput.memories),
            IF Len(callInput.memories) = 1 THEN "memory" ELSE "memories",
            "from this time period.">>

\* Every attempt has failed for two memories and the fallback was returned.
C28_Witness ==
  /\ callOutput.fn = "synthesizeEvent"
  /\ Len(callInput.memories) = 2
  /\ \A k \in 1..MAX_RETRIES : callInput.attempts[k].failed
  /\ callOutput.value.title = <<"fallback", 2>>
  /\ callOutput.value.summary = <<2, "memories", "from this time period.">>

----------------------------------------------------------------------------
\* Attaching to an event that already has several linked memories.  The store
\* is as one createNewEvent over a cluster of `linked` memories left it (memory
\* 1 triggered it); one or two more memories of the same place have been
\* uploaded since, captured before or after the linked ones, and their formation
\* runs are due.  callInput keeps how many memories were linked at the start.

LinkedCounts == 1..5

AttachMemoryIds == 1..6

NewCapturedAts == {0, 10}

InitAttach ==
  /\ InitPipeline
  /\ callOutput = NoOutput
  /\ callFrame = NoFrame
  /\ \E linked \in LinkedCounts : \E hours \in {0, 1} :
     \E last \in {id \in AttachMemoryIds : id > linked /\ id <= linked + 2} :
     \E capturedAts \in [(linked + 1)..last -> NewCapturedAts] :
       /\ callInput = [fn |-> "attach", linked |-> linked]
       /\ memories = [id \in 1..last |->
                        [userId |-> "u1",
                         capturedAt |-> IF id <= linked THEN id ELSE capturedAts[id],
                         latitude |-> 1000, longitude |-> 500]]
       /\ events = [id \in {1} |->
                      [id |-> 1, userId |-> "u1", startTime |-> 1, endTime |-> linked,
                       title |-> <<"llm", linked>>, confidenceScore |-> 100,
                       hoursSinceUpdate |-> hours]]
       /\ links = {[memoryId |-> id, eventId |-> 1,
                    relationshipType |-> relationshipTypeOf(id, <<1>>)] : id \in 1..linked}
       /\ eventEmbeddings = [id \in {1} |-> <<"llm", linked>>]
  /\ fpc = [m \in AttachMemoryIds |-> "idle"]
  /\ nearby = [m \in AttachMemoryIds |-> <<>>]
  /\ existingEvent = [m \in AttachMemoryIds |-> NoEvent]
  /\ existingLinks = [m \in AttachMemoryIds |-> 0]
  /\ runs = 0
  /\ lastResult = [memoryId |-> 0, outcome |-> "none", storeUnchanged |-> FALSE]

\* The formation run of a memory uploaded since the event was created.
FormStartUploaded(m) ==
  /\ m > callInput.linked
  /\ FormStartConcurrent(m)

NextAttach ==
  \/ Tick
  \/ \E m \in AttachMemoryIds : FormStartUploaded(m)
  \/ \E m \in AttachMemoryIds : FormLookup(m)
  \/ \E m \in AttachMemoryIds : FormCreate(m)
  \/ \E m \in AttachMemoryIds : FormAttachBegin(m)
  \/ \E m \in AttachMemoryIds : FormAttachWrite(m)

SpecAttach == InitAttach /\ [][NextAttach]_vars

\* The attach of memory m commits in this step.
AttachCommits(m) ==
  /\ fpc[m] = "attachWrite"
  /\ lastResult'.memoryId = m
  /\ lastResult'.outcome = "attached"

\* The step re-synthesizes event e: title, bounds, confidence and embedding are
\* written anew and the row counts as updated now.
Resynthesized(e) ==
  /\ events'[e].hoursSinceUpdate = 0
  /\ eventEmbeddings'[e] = events'[e].title

\* C30: when a memory is attached to an existing event, the event is
\* re-synthesized exactly when it had between 1 and 4 linked memories before the
\* attach and was last updated at least 1 hour ago; otherwise the event row and
\* its embedding are left as they were, so an event with 5 or more linked
\* memories is never re-synthesized.
C30_ResynthesisExactlyWhenDue ==
  [][\A m \in AttachMemoryIds :
       AttachCommits(m) =>
         LET e == existingEvent[m].id
             linkedBefore == Cardinality(LinksOfEvent(links, e))
         IN IF linkedBefore \in 1..4 /\ events[e].hoursSinceUpdate >= 1
            THEN Resynthesized(e)
            ELSE events' = events /\ eventEmbeddings' = eventEmbeddings]_vars

====
